---- MODULE Spec2Model ----
(***************************************************************************)
(* Model of llms-txt-maker: the merge/dedup engine (collectContent,        *)
(* appendItems), the robots policy engine (RobotsManager, parseRobotsTxt,  *)
(* isAllowedByGroup), the crawl orchestrator (crawlFromSitemap,            *)
(* parseSitemap, fetchWithRetry), initConfigCommand and renderFull.        *)
(*                                                                         *)
(* Strings are sequences of tokens.  Free text (titles, summaries,         *)
(* descriptions, robots paths and patterns) is a sequence of one-character *)
(* tokens.  A URL is a sequence of the tokens OriginLower, OriginUpper,    *)
(* BadOrigin, "/" and path segments.  The JavaScript value undefined is    *)
(* the one-token sequence Undefined.                                       *)
(***************************************************************************)
EXTENDS Integers, Sequences, FiniteSets, TLC

VARIABLES
    \* ---- collectContent / appendItems ----
    siteUrl,        \* config.site.url
    caller,         \* "collectContent", or "direct" (appendItems called in any mode)
    phase,          \* position in collectContent: "manual", "fs", "sitemap", "done"
    results,        \* destination: the ContentItem list (1-based here, 0-based in the code)
    indexByUrl,     \* Map<string, number>: NormalizedURL -> 0-based index
    processed,      \* history: [key, src] of every URL-bearing item processed, in order
    manualInserted, \* history: the manual items as they were pushed
    lastAppend,     \* history: the last loop iteration of appendItems
    \* ---- isAllowedByGroup ----
    robotsGroup,    \* a RobotsGroup: [allow, disallow], lists of compiled patterns (raw)
    robotsTarget,   \* url.pathname + url.search of the URL under evaluation
    robotsVerdict,  \* "none" before the evaluation, then "allowed" / "disallowed"
    \* ---- crawlFromSitemap ----
    crawlOpts,      \* CrawlOptions: concurrency, delayMs, maxPages, respectRobotsTxt, include, exclude
    allUrls,        \* what parseSitemap(sitemapUrl) returned
    pc,             \* "start", "robots", "robotsFetch", "batch", "fetching", "delay", "done"
    robotsCache,    \* RobotsManager.cache: origin -> parsed rules or "null"
    robotsPending,  \* the origin whose robots.txt request is in flight, or "none"
    robotsRequests, \* history: the origins whose robots.txt was requested
    robotsAttempt,  \* i of fetchWithRetry's loop in the robots.txt request in flight
    robotsFailed,   \* history: the origins whose robots.txt request gave no rules
    robotsLog,      \* history: [url, outcome] of every canCrawl call
    allowedUrls,
    targets,
    queue,
    pages,
    batch,          \* the URLs of the batch in flight
    batchResults,   \* per batch position: the Page, or Pending
    batchSizes,     \* history: the size of every batch issued
    delaysAfter,    \* history: the batch numbers after which delay(delayMs) was started
    delaysElapsed,  \* history: how many of those delays have elapsed
    fetchLog,       \* history: [url, batch, outcome] of every crawlPage call
    outOfOrder,     \* history: some fetch completed before one issued earlier in its batch
    \* ---- parseSitemap ----
    sitemapDoc,     \* the document at sitemapUrl, with the documents it refers to
    sitemapStack,   \* the active parseSitemap calls, the innermost last
    sitemapLog,     \* history: the documents requested, in order
    \* ---- shouldIncludeUrl ----
    filterUrl,      \* url
    filterInclude,  \* include: a list of patterns, <<>> when absent or empty
    filterExclude,  \* exclude: a list of patterns, <<>> when absent or empty
    filterKept,     \* "none" before the call, then "kept" / "dropped"
    \* ---- initConfigCommand ----
    files,          \* the file system: path -> "absent", or the content of the file
    dirs,           \* the directories that exist
    exitCode,       \* process.exitCode, 0 while it is not set
    lastInit,       \* history: the last initConfigCommand call
    \* ---- renderFull / processDocs ----
    renderDocs,     \* docs: the list of [url, md]
    renderOpts,     \* maxDocs (0 when absent), maxDocChars, maxTotalChars, redactPII
    renderPc,       \* "idle", "loop" (in processDocs), "done"
    renderPos,      \* the number of documents the loop of processDocs has passed
    remainingChars, \* remainingChars of processDocs
    processedDocs,  \* processed: the list of [url, content, truncated]
    truncationFlags,\* history: truncated, docLimitExceeded, totalLimitExceeded per entry
    fullSections,   \* the document sections of the output: [url, content, notice]
    \* ---- parseRobotsTxt ----
    robotsLines,    \* content.split(/\r?\n/): the lines of the robots.txt body
    lineNo,         \* the number of lines the loop has passed
    parsedGroups,   \* groups: agent -> [allow, disallow], lists of raw patterns
    currentAgents,  \* currentAgents
    hasRulesInBlock,\* hasRulesInBlock
    \* ---- fetchWithRetry ----
    retryOpts,      \* retries and delayMs of the call
    retryI,         \* i of the for loop
    retryPc,        \* "idle", "called", "request", "wait", "returned", "threw"
    retryTrace,     \* history: the requests ("threw", or the status) and the waits
    retryResult     \* "none", then the response returned or the error thrown

mergeVars == <<siteUrl, caller, phase, results, indexByUrl, processed,
               manualInserted, lastAppend>>
groupVars == <<robotsGroup, robotsTarget, robotsVerdict>>
crawlVars == <<crawlOpts, allUrls, pc, robotsCache, robotsPending, robotsRequests,
               robotsAttempt, robotsFailed,
               robotsLog, allowedUrls, targets, queue, pages, batch, batchResults,
               batchSizes, delaysAfter, delaysElapsed, fetchLog, outOfOrder,
               sitemapDoc, sitemapStack, sitemapLog>>
sitemapVars == <<sitemapDoc, sitemapStack, sitemapLog>>
retryVars == <<robotsAttempt, robotsFailed>>
filterVars == <<filterUrl, filterInclude, filterExclude, filterKept>>
initVars == <<files, dirs, exitCode, lastInit>>
renderVars == <<renderDocs, renderOpts, renderPc, renderPos, remainingChars,
                processedDocs, truncationFlags, fullSections>>
parseVars == <<robotsLines, lineNo, parsedGroups, currentAgents, hasRulesInBlock>>
fetchRetryVars == <<retryOpts, retryI, retryPc, retryTrace, retryResult>>
vars == <<mergeVars, groupVars, crawlVars, filterVars, initVars, renderVars,
          parseVars, fetchRetryVars>>
notMerge == <<groupVars, crawlVars, filterVars, initVars, renderVars,
             parseVars, fetchRetryVars>>
notGroup == <<mergeVars, crawlVars, filterVars, initVars, renderVars,
             parseVars, fetchRetryVars>>
notCrawl == <<mergeVars, groupVars, filterVars, initVars, renderVars,
             parseVars, fetchRetryVars>>
notFilter == <<mergeVars, groupVars, crawlVars, initVars, renderVars,
             parseVars, fetchRetryVars>>
notInit == <<mergeVars, groupVars, crawlVars, filterVars, renderVars,
             parseVars, fetchRetryVars>>
notRender == <<mergeVars, groupVars, crawlVars, filterVars, initVars,
             parseVars, fetchRetryVars>>
notParse == <<mergeVars, groupVars, crawlVars, filterVars, initVars, renderVars,
             fetchRetryVars>>
notFetchRetry == <<mergeVars, groupVars, crawlVars, filterVars, initVars, renderVars,
                   parseVars>>

----------------------------------------------------------------------------
(* Strings *)

Undefined == <<"undefined">>

Last(s) == s[Len(s)]
Front(s) == SubSeq(s, 1, Len(s) - 1)

RECURSIVE TrimStart(_)
TrimStart(s) ==
    IF s # <<>> /\ Head(s) = " " THEN TrimStart(Tail(s)) ELSE s

RECURSIVE TrimEnd(_)
TrimEnd(s) ==
    IF s # <<>> /\ Last(s) = " " THEN TrimEnd(Front(s)) ELSE s

Trim(s) == TrimEnd(TrimStart(s))

Range(seq) == {seq[i] : i \in 1..Len(seq)}

----------------------------------------------------------------------------
(* URLs *)

OriginLower == "https://example.com"
OriginUpper == "HTTPS://EXAMPLE.COM"
OriginOther == "https://other.org"
BadOrigin == "https://[bad"
\* A scheme whose URLs parse and have the opaque origin "null".
FileScheme == "file://"

\* Number of characters of a token; only "longer than one character" is used.
Chars == {"/", "a", "b", "c", "x", "*", "$", "?"}
TokenLen(t) == IF t \in Chars THEN 1 ELSE 2

RECURSIVE StrLen(_)
StrLen(s) == IF s = <<>> THEN 0 ELSE TokenLen(Head(s)) + StrLen(Tail(s))

EndsWithSlash(s) == s # <<>> /\ Last(s) = "/"

Throws == <<"TypeError">>

IsAbsolute(url) ==
    /\ url # <<>>
    /\ Head(url) \in {OriginLower, OriginUpper, OriginOther, BadOrigin, FileScheme}

LowerCased(origin) == IF origin = OriginUpper THEN OriginLower ELSE origin

\* new URL(url).toString() of an absolute URL: the host is lower-cased and an
\* empty path becomes "/".
ParseAbsolute(url) ==
    IF Head(url) = BadOrigin THEN Throws
    ELSE <<LowerCased(Head(url))>> \o (IF Tail(url) = <<>> THEN <<"/">> ELSE Tail(url))

\* The path of a parsed URL up to and including its last "/".
RECURSIVE DirName(_)
DirName(path) ==
    IF path = <<>> THEN <<"/">>
    ELSE IF Last(path) = "/" THEN path
    ELSE DirName(Front(path))

\* new URL(url, base).toString()
ResolveUrl(url, base) ==
    IF IsAbsolute(url) THEN ParseAbsolute(url)
    ELSE IF ~IsAbsolute(base) \/ ParseAbsolute(base) = Throws THEN Throws
    ELSE LET b == ParseAbsolute(base) IN
         IF url = <<>> THEN b
         ELSE IF Head(url) = "/" THEN <<Head(b)>> \o url
         ELSE <<Head(b)>> \o DirName(Tail(b)) \o url

StripSlash(s) == IF EndsWithSlash(s) /\ StrLen(s) > 1 THEN Front(s) ELSE s

normalizeContentUrl(url, site) ==
    LET resolved == ResolveUrl(url, site) IN
    IF resolved # Throws THEN StripSlash(resolved) ELSE StripSlash(url)

----------------------------------------------------------------------------
(* Merge/dedup engine *)

Item(t, u, s, g) == [title |-> t, url |-> u, summary |-> s, tags |-> g]

\* a ?? b
Coalesce(a, b) == IF a # Undefined THEN a ELSE b

\* incoming.title?.trim().length is truthy
HasTitle(item) == item.title # Undefined /\ Len(Trim(item.title)) > 0

\* Mutant: `incoming.summary || existing.summary`, an empty summary does not win.
mergeContentItem_TruthySummary(existing, incoming) ==
    [title   |-> IF HasTitle(incoming) THEN incoming.title ELSE existing.title,
     url     |-> Coalesce(incoming.url, existing.url),
     summary |-> IF incoming.summary # Undefined /\ incoming.summary # <<>>
                 THEN incoming.summary ELSE existing.summary,
     tags    |-> Coalesce(incoming.tags, existing.tags)]

mergeContentItem(existing, incoming) ==
    [title   |-> IF HasTitle(incoming) THEN incoming.title ELSE existing.title,
     url     |-> Coalesce(incoming.url, existing.url),
     summary |-> IF incoming.summary # Undefined THEN incoming.summary
                 ELSE existing.summary,
     tags    |-> Coalesce(incoming.tags, existing.tags)]

\* Mutant: `item.url === undefined`, the empty string is not skipped.
NoUrl_UndefinedOnly(item) == item.url = Undefined

\* !item?.url
NoUrl(item) == item.url = Undefined \/ item.url = <<>>

\* Mutant: the index map stores the length after the push.
Pushed_OneBased(destination, index, item, key) ==
    [dest |-> Append(destination,
                     [title |-> item.title, url |-> item.url,
                      summary |-> item.summary, tags |-> item.tags]),
     idx |-> [k \in DOMAIN index \cup {key} |->
                 IF k = key THEN Len(destination) + 1 ELSE index[k]],
     did |-> "push"]

Pushed(destination, index, item, key) ==
    [dest |-> Append(destination,
                     [title |-> item.title, url |-> item.url,
                      summary |-> item.summary, tags |-> item.tags]),
     idx |-> [k \in DOMAIN index \cup {key} |->
                 IF k = key THEN Len(destination) ELSE index[k]],
     did |-> "push"]

\* Mutant: the index map is keyed by the raw URL.
AppendOne_RawKey(destination, index, item, site, mode) ==
    IF NoUrl(item)
    THEN [dest |-> destination, idx |-> index, did |-> "skip"]
    ELSE IF item.url \in DOMAIN index
    THEN IF mode = "prefer-incoming"
         THEN [dest |-> [destination EXCEPT ![index[item.url] + 1] =
                             mergeContentItem(@, item)],
               idx |-> index, did |-> "merge"]
         ELSE [dest |-> destination, idx |-> index, did |-> "ignore"]
    ELSE Pushed(destination, index, item, item.url)

\* Mutant: a prefer-incoming collision removes the existing item and appends
\* the merged one at the end.
AppendOne_MoveToEnd(destination, index, item, site, mode) ==
    IF NoUrl(item)
    THEN [dest |-> destination, idx |-> index, did |-> "skip"]
    ELSE LET normalizedUrl == normalizeContentUrl(item.url, site) IN
         IF normalizedUrl \in DOMAIN index
         THEN IF mode = "prefer-incoming"
              THEN LET at == index[normalizedUrl] + 1 IN
                   [dest |-> Append(SubSeq(destination, 1, at - 1)
                                      \o SubSeq(destination, at + 1, Len(destination)),
                                    mergeContentItem(destination[at], item)),
                    idx |-> [k \in DOMAIN index |->
                                IF k = normalizedUrl THEN Len(destination) - 1
                                ELSE IF index[k] + 1 > at THEN index[k] - 1
                                ELSE index[k]],
                    did |-> "merge"]
              ELSE [dest |-> destination, idx |-> index, did |-> "ignore"]
         ELSE Pushed(destination, index, item, normalizedUrl)

\* Mutant: the mode is not looked at, every collision merges.
AppendOne_AlwaysMerge(destination, index, item, site, mode) ==
    IF NoUrl(item)
    THEN [dest |-> destination, idx |-> index, did |-> "skip"]
    ELSE LET normalizedUrl == normalizeContentUrl(item.url, site) IN
         IF normalizedUrl \in DOMAIN index
         THEN [dest |-> [destination EXCEPT ![index[normalizedUrl] + 1] =
                             mergeContentItem(@, item)],
               idx |-> index, did |-> "merge"]
         ELSE Pushed(destination, index, item, normalizedUrl)

\* Mutant: a keep-first collision fills the fields the existing item lacks
\* from the incoming one.
AppendOne_KeepFirstFills(destination, index, item, site, mode) ==
    IF NoUrl(item)
    THEN [dest |-> destination, idx |-> index, did |-> "skip"]
    ELSE LET normalizedUrl == normalizeContentUrl(item.url, site) IN
         IF normalizedUrl \in DOMAIN index
         THEN IF mode = "prefer-incoming"
              THEN [dest |-> [destination EXCEPT ![index[normalizedUrl] + 1] =
                                  mergeContentItem(@, item)],
                    idx |-> index, did |-> "merge"]
              ELSE [dest |-> [destination EXCEPT ![index[normalizedUrl] + 1] =
                                  mergeContentItem(item, @)],
                    idx |-> index, did |-> "ignore"]
         ELSE Pushed(destination, index, item, normalizedUrl)

\* One iteration of the loop of appendItems: the new destination and index map,
\* and what the iteration did.
AppendOne(destination, index, item, site, mode) ==
    IF NoUrl(item)
    THEN [dest |-> destination, idx |-> index, did |-> "skip"]
    ELSE LET normalizedUrl == normalizeContentUrl(item.url, site) IN
         IF normalizedUrl \in DOMAIN index
         THEN IF mode = "prefer-incoming"
              THEN [dest |-> [destination EXCEPT ![index[normalizedUrl] + 1] =
                                  mergeContentItem(@, item)],
                    idx |-> index, did |-> "merge"]
              ELSE [dest |-> destination, idx |-> index, did |-> "ignore"]
         ELSE Pushed(destination, index, item, normalizedUrl)

----------------------------------------------------------------------------
(* Pages to content items (collect.sitemap.ts) *)

\* source.maxSummaryChars of the sitemap source
MaxSummaryChars == 2

Ellipsis == <<".", ".", ".">>

limitLength(text, maxChars) ==
    IF Len(text) <= maxChars THEN text
    ELSE TrimEnd(SubSeq(text, 1, maxChars)) \o Ellipsis

\* A Page.  status 0 stands for an absent status (both are falsy in
\* `page.status && page.status >= 400`).  markdown is a sequence of blocks (the
\* pieces between blank lines), <<>> for an absent or empty markdown (both are
\* falsy in `if (page.markdown)`); a block is [kind, plain] with kind "blank"
\* (empty after trim), "heading" (matches /^#{1,6}\s/) or "text", and plain
\* the result of stripMarkdown on it.
Page(u, st, t, d, md) ==
    [url |-> u, status |-> st, title |-> t, description |-> d, markdown |-> md]

RECURSIVE FirstParagraph(_, _)
FirstParagraph(blocks, maxChars) ==
    IF blocks = <<>> THEN Undefined
    ELSE LET block == Head(blocks) IN
         IF block.kind = "blank" \/ block.kind = "heading" \/ block.plain = <<>>
         THEN FirstParagraph(Tail(blocks), maxChars)
         ELSE limitLength(block.plain, maxChars)

pickSummary(page, maxChars) ==
    IF page.description # Undefined /\ Len(Trim(page.description)) > 0
    THEN limitLength(Trim(page.description), maxChars)
    ELSE IF page.markdown # <<>>
    THEN FirstParagraph(page.markdown, maxChars)
    ELSE Undefined

NoItem == [title |-> Undefined, url |-> Undefined, summary |-> Undefined,
           tags |-> Undefined]

\* Mutant: the status of the page is not looked at.
createContentItem_AnyStatus(page, maxChars) ==
    IF page.url = Undefined \/ page.url = <<>> THEN NoItem
    ELSE Item(IF page.title # Undefined /\ Trim(page.title) # <<>>
              THEN Trim(page.title) ELSE page.url,
              page.url,
              pickSummary(page, maxChars),
              Undefined)

\* The ContentItem of a page, or NoItem for undefined.
createContentItem(page, maxChars) ==
    IF page.url = Undefined \/ page.url = <<>> THEN NoItem
    ELSE IF page.status # 0 /\ page.status >= 400 THEN NoItem
    ELSE Item(IF page.title # Undefined /\ Trim(page.title) # <<>>
              THEN Trim(page.title) ELSE page.url,
              page.url,
              pickSummary(page, maxChars),
              Undefined)

----------------------------------------------------------------------------
(* Inputs of the merge *)

\* The number of items and pages one run processes.
MaxItems == 3

SiteUrls == { <<OriginLower>>, <<OriginLower, "/", "base", "/">> }

\* Manual URLs pass the config schema: they start with "/" or parse as a URL.
ManualUrls == { <<OriginLower>>, <<"/">>, <<OriginUpper, "/", "docs", "/">> }

ManualItems ==
    { Item(<<"M">>, u, <<"m">>, <<"guide">>) : u \in ManualUrls }
    \cup { Item(<<" ">>, <<"/", "docs">>, Undefined, Undefined) }

\* Filesystem items: the URL is "/"-rooted (derived from the path) or any front
\* matter string, which need not parse.
FsItems ==
    { Item(<<"F">>, <<"/">>, <<>>, Undefined),
      Item(<<" ">>, <<OriginLower, "/">>, Undefined, <<>>),
      Item(<<"F">>, <<"docs">>, <<"f">>, <<"api">>),
      Item(<<"F">>, <<BadOrigin, "/">>, Undefined, Undefined),
      Item(<<"F">>, <<BadOrigin>>, <<"f">>, Undefined) }

\* Items handed straight to appendItems, also without a URL.
DirectItems ==
    { Item(<<"M">>, <<OriginLower>>, <<"m">>, <<"guide">>),
      Item(<<" ">>, <<OriginLower, "/">>, Undefined, <<>>),
      Item(<<"F">>, <<"/">>, <<>>, Undefined),
      Item(<<"F">>, <<"docs">>, <<"f">>, <<"api">>),
      Item(Undefined, <<OriginUpper, "/", "base", "/", "docs", "/">>, <<>>, <<"api">>),
      Item(<<"F">>, <<BadOrigin, "/">>, Undefined, Undefined),
      Item(<<"X">>, <<BadOrigin>>, <<"x">>, Undefined),
      Item(<<"X">>, Undefined, <<"x">>, Undefined),
      Item(<<"X">>, <<>>, <<"x">>, Undefined) }

PageUrls == { <<OriginLower, "/">>, <<OriginLower, "/", "docs">> }

Paragraphs ==
    << [kind |-> "blank", plain |-> <<>>],
       [kind |-> "heading", plain |-> <<"T">>],
       [kind |-> "text", plain |-> <<>>],
       [kind |-> "text", plain |-> <<"p", "a", "r", "a">>] >>

\* What a crawled page carries besides its URL and status.
PageBodies ==
    { [title |-> <<" ", "H", " ">>, description |-> <<" ", "d">>, markdown |-> Paragraphs],
      [title |-> <<"H">>, description |-> <<"d", "e", " ", "s">>, markdown |-> <<>>],
      [title |-> Undefined, description |-> <<" ">>, markdown |-> Paragraphs],
      [title |-> <<" ">>, description |-> Undefined, markdown |-> <<>>] }

Pages ==
    { Page(u, st, b.title, b.description, b.markdown) :
        u \in PageUrls, st \in {200, 404}, b \in PageBodies }
    \cup { Page(<<OriginLower, "/">>, 500, Undefined, Undefined, <<>>),
           Page(<<OriginLower, "/">>, 0, <<"H">>, <<"d">>, <<>>),
           Page(<<>>, 200, <<"H">>, <<"d">>, <<>>) }

NoPage == Page(Undefined, 0, Undefined, Undefined, <<>>)

----------------------------------------------------------------------------
(* collectContent *)

MergeInit ==
    /\ siteUrl \in SiteUrls
    /\ caller \in {"collectContent", "direct"}
    /\ phase = "manual"
    /\ results = <<>>
    /\ indexByUrl = <<>>
    /\ processed = <<>>
    /\ manualInserted = <<>>
    /\ lastAppend = [item |-> NoItem, mode |-> "none", did |-> "none",
                     src |-> "none", page |-> NoPage]

\* The bookkeeping shared by every call of the loop body.
Appended(item, mode, src, page) ==
    LET r == AppendOne(results, indexByUrl, item, siteUrl, mode) IN
    /\ results' = r.dest
    /\ indexByUrl' = r.idx
    /\ processed' = IF r.did = "skip" THEN processed
                    ELSE Append(processed,
                                [key |-> normalizeContentUrl(item.url, siteUrl),
                                 src |-> src])
    /\ manualInserted' = IF src = "manual" /\ r.did = "push"
                         THEN Append(manualInserted, Last(r.dest))
                         ELSE manualInserted
    /\ lastAppend' = [item |-> item, mode |-> mode, did |-> r.did,
                      src |-> src, page |-> page]

\* appendItems(results, config.sources.manual.items, ..., "keep-first"), one item
ManualItem(item) ==
    /\ caller = "collectContent" /\ phase = "manual"
    /\ Len(processed) < MaxItems
    /\ Appended(item, "keep-first", "manual", NoPage)
    /\ UNCHANGED <<siteUrl, caller, phase, notMerge>>

\* appendItems(results, fsItems, ..., "prefer-incoming"), one item
FsItem(item) ==
    /\ caller = "collectContent" /\ phase = "fs"
    /\ Len(processed) < MaxItems
    /\ Appended(item, "prefer-incoming", "fs", NoPage)
    /\ UNCHANGED <<siteUrl, caller, phase, notMerge>>

\* Mutant: the sitemap items are appended under "keep-first".
SitemapPage_KeepFirst(page) ==
    /\ caller = "collectContent" /\ phase = "sitemap"
    /\ Len(processed) < MaxItems
    /\ LET item == createContentItem(page, MaxSummaryChars) IN
       IF item = NoItem
       THEN /\ lastAppend' = [item |-> NoItem, mode |-> "keep-first",
                              did |-> "dropped", src |-> "sitemap", page |-> page]
            /\ UNCHANGED <<results, indexByUrl, processed, manualInserted>>
       ELSE Appended(item, "keep-first", "sitemap", page)
    /\ UNCHANGED <<siteUrl, caller, phase, notMerge>>

\* collectFromSitemap turns one crawled page into an item (or drops it), and
\* appendItems(results, sitemapItems, ..., "prefer-incoming") takes it.
SitemapPage(page) ==
    /\ caller = "collectContent" /\ phase = "sitemap"
    /\ Len(processed) < MaxItems
    /\ LET item == createContentItem(page, MaxSummaryChars) IN
       IF item = NoItem
       THEN /\ lastAppend' = [item |-> NoItem, mode |-> "prefer-incoming",
                              did |-> "dropped", src |-> "sitemap", page |-> page]
            /\ UNCHANGED <<results, indexByUrl, processed, manualInserted>>
       ELSE Appended(item, "prefer-incoming", "sitemap", page)
    /\ UNCHANGED <<siteUrl, caller, phase, notMerge>>

\* The end of one source's items: collectContent goes on to the next source.
NextSource ==
    /\ caller = "collectContent" /\ phase # "done"
    /\ phase' = CASE phase = "manual" -> "fs"
                  [] phase = "fs" -> "sitemap"
                  [] phase = "sitemap" -> "done"
    /\ UNCHANGED <<siteUrl, caller, results, indexByUrl, processed,
                   manualInserted, lastAppend, notMerge>>

\* appendItems called by itself on the shared destination and index map.
DirectAppend(item, mode) ==
    /\ caller = "direct"
    /\ Len(processed) < MaxItems
    /\ Appended(item, mode, "direct", NoPage)
    /\ UNCHANGED <<siteUrl, caller, phase, notMerge>>

MergeNext ==
    \/ \E item \in ManualItems : ManualItem(item)
    \/ \E item \in FsItems : FsItem(item)
    \/ \E page \in Pages : SitemapPage(page)
    \/ NextSource
    \/ \E item \in DirectItems, mode \in {"keep-first", "prefer-incoming"} :
          DirectAppend(item, mode)

GroupIdle ==
    /\ robotsGroup = [allow |-> <<>>, disallow |-> <<>>]
    /\ robotsTarget = <<>>
    /\ robotsVerdict = "none"

ParseIdle ==
    /\ robotsLines = <<>>
    /\ lineNo = 0
    /\ parsedGroups = <<>>
    /\ currentAgents = <<>>
    /\ hasRulesInBlock = FALSE

RetryIdle ==
    /\ retryOpts = [retries |-> 0, delayMs |-> 0]
    /\ retryI = 0
    /\ retryPc = "idle"
    /\ retryTrace = <<>>
    /\ retryResult = "none"

FilterIdle ==
    /\ filterUrl = <<>>
    /\ filterInclude = <<>>
    /\ filterExclude = <<>>
    /\ filterKept = "none"

DefaultPath == "llms.config.ts"
NestedPath == "conf/llms.config.ts"
OtherPath == "site/llms.config.ts"
ConfigPaths == {DefaultPath, NestedPath, OtherPath}

NoCall == [target |-> "none", force |-> FALSE, before |-> "absent"]

InitIdle ==
    /\ files = [p \in ConfigPaths |-> "absent"]
    /\ dirs = {"."}
    /\ exitCode = 0
    /\ lastInit = NoCall

RenderIdle ==
    /\ renderDocs = <<>>
    /\ renderOpts = [maxDocs |-> 0, maxDocChars |-> 1, maxTotalChars |-> 1,
                     redactPII |-> FALSE]
    /\ renderPc = "idle"
    /\ renderPos = 0
    /\ remainingChars = 0
    /\ processedDocs = <<>>
    /\ truncationFlags = <<>>
    /\ fullSections = <<>>

\* No sitemap document: parseSitemap is not running.
NoDoc == [kind |-> "none", urls |-> <<>>, children |-> <<>>]

CrawlIdle ==
    /\ crawlOpts = [concurrency |-> 1, delayMs |-> 0, hasMaxPages |-> FALSE,
                    maxPages |-> 0, respectRobotsTxt |-> FALSE,
                    include |-> <<>>, exclude |-> <<>>]
    /\ sitemapDoc = NoDoc
    /\ sitemapStack = <<>>
    /\ sitemapLog = <<>>
    /\ allUrls = <<>>
    /\ pc = "idle"
    /\ robotsCache = <<>>
    /\ robotsPending = "none"
    /\ robotsRequests = <<>>
    /\ robotsAttempt = 0
    /\ robotsFailed = {}
    /\ robotsLog = <<>>
    /\ allowedUrls = <<>>
    /\ targets = <<>>
    /\ queue = <<>>
    /\ pages = <<>>
    /\ batch = <<>>
    /\ batchResults = <<>>
    /\ batchSizes = <<>>
    /\ delaysAfter = <<>>
    /\ delaysElapsed = 0
    /\ fetchLog = <<>>
    /\ outOfOrder = FALSE

MergeStart == MergeInit /\ GroupIdle /\ CrawlIdle /\ FilterIdle /\ InitIdle /\ RenderIdle /\ ParseIdle /\ RetryIdle

MergeSpec == MergeStart /\ [][MergeNext]_vars

----------------------------------------------------------------------------
(* Properties of the merge *)

KeyOf(item) == normalizeContentUrl(item.url, siteUrl)

KeysOf(items) == [i \in 1..Len(items) |-> KeyOf(items[i])]

\* The keys of a history in the order of their first appearance.
RECURSIVE FirstAppearances(_, _)
FirstAppearances(history, seen) ==
    IF history = <<>> THEN <<>>
    ELSE IF Head(history).key \in seen THEN FirstAppearances(Tail(history), seen)
    ELSE <<Head(history).key>>
         \o FirstAppearances(Tail(history), seen \cup {Head(history).key})

Collided == lastAppend.did \in {"merge", "ignore"}

\* C1: after collectContent, and after any sequence of appendItems calls in
\* either mode on one destination and one index map, no two items of the
\* destination have the same normalizeContentUrl(url, siteUrl).
C1_NoSharedNormalizedUrl ==
    \A i, j \in 1..Len(results) :
        i # j => KeyOf(results[i]) # KeyOf(results[j])

\* C1 witness: appendItems was called directly, an item collided, and the
\* destination holds several items.
C1_Witness ==
    /\ Collided
    /\ Len(results) >= 2
    /\ Len(processed) = MaxItems
    /\ caller = "direct"

\* C2: the item at position i of the output is the one whose NormalizedURL was
\* the i-th to appear first among the URL-bearing items processed (manual, fs,
\* sitemap in that order), and a collision never moves, removes or re-appends
\* an item.
C2_OrderPreserving ==
    [][ /\ KeysOf(results') = FirstAppearances(processed', {})
        /\ (processed' # processed /\ lastAppend'.did \in {"merge", "ignore"})
             => KeysOf(results') = KeysOf(results) ]_vars

\* C2 witness: collectContent is done, a later source collided with the first
\* item and another later item was appended after it.
C2_Witness ==
    /\ caller = "collectContent" /\ phase = "done"
    /\ Len(results) = 2 /\ Len(processed) = 3
    /\ processed[1].src = "manual"
    /\ processed[2].src = "sitemap" /\ processed[2].key # processed[1].key
    /\ processed[3].src = "sitemap" /\ processed[3].key = processed[1].key

OverriddenLater(key) ==
    \E k \in 1..Len(processed) :
        processed[k].src \in {"fs", "sitemap"} /\ processed[k].key = key

\* C3 as stated: every manual item that was inserted is still, field for field,
\* the item at its position, whatever the filesystem and the sitemap brought.
C3_ManualNeverOverwritten ==
    caller = "collectContent" =>
        \A p \in 1..Len(manualInserted) : results[p] = manualInserted[p]

\* C3 amended: a manual item is never altered by a later manual item; it keeps
\* its fields as long as no filesystem or sitemap item with the same
\* NormalizedURL is processed (those merge into it under prefer-incoming).
C3_ManualKeptUntilOverridden ==
    caller = "collectContent" =>
        \A p \in 1..Len(manualInserted) :
            ~OverriddenLater(KeyOf(manualInserted[p]))
                => results[p] = manualInserted[p]

\* C3 witness: a manual item met a later manual item of the same NormalizedURL
\* and a filesystem item of another one.
C3_Witness ==
    /\ caller = "collectContent" /\ phase = "done"
    /\ Len(manualInserted) = 1 /\ Len(processed) = 3
    /\ processed[2].src = "manual" /\ processed[2].key = processed[1].key
    /\ processed[3].src = "fs"
    /\ ~OverriddenLater(KeyOf(manualInserted[1]))

PageHasTitleAndDescription(page) ==
    /\ page.title # Undefined /\ Trim(page.title) # <<>>
    /\ page.description # Undefined /\ Trim(page.description) # <<>>

SitemapHitManual ==
    /\ caller = "collectContent"
    /\ lastAppend.src = "sitemap"
    /\ lastAppend.page.url # <<>>
    /\ ~(lastAppend.page.status # 0 /\ lastAppend.page.status >= 400)
    /\ PageHasTitleAndDescription(lastAppend.page)
    /\ \E p \in 1..Len(manualInserted) :
          KeyOf(manualInserted[p]) = KeyOf(lastAppend.page)

\* C4: when a crawled page (fetched without an error status, with a <title>
\* and a meta description) has the NormalizedURL of a manual item, the output
\* has one item for that URL, and its title and summary are the page's: the
\* trimmed <title> and the trimmed description, cut to maxSummaryChars.
C4_SitemapOverridesManual ==
    SitemapHitManual =>
        LET page == lastAppend.page
            hits == {i \in 1..Len(results) : KeyOf(results[i]) = KeyOf(page)}
        IN /\ Cardinality(hits) = 1
           /\ \A i \in hits :
                /\ results[i].title = Trim(page.title)
                /\ results[i].summary =
                      limitLength(Trim(page.description), MaxSummaryChars)

\* C4 witness: manual "https://example.com", then the page
\* "https://example.com/" with a title and a short description.
C4_Witness ==
    /\ SitemapHitManual
    /\ manualInserted[1].url = <<OriginLower>>
    /\ lastAppend.page.url = <<OriginLower, "/">>
    /\ Len(Trim(lastAppend.page.description)) <= MaxSummaryChars
    /\ Len(results) = 1
    /\ results[1].title # manualInserted[1].title
    /\ results[1].summary # manualInserted[1].summary

\* C5: a prefer-incoming collision replaces the existing item field by field:
\* the incoming title if non-blank, the incoming url, the incoming summary if
\* provided (the empty string too), the incoming tags if present; every other
\* item stays as it is.
C5_FieldwiseMerge ==
    [][ (processed' # processed /\ lastAppend'.did = "merge") =>
          LET inc == lastAppend'.item
              i == indexByUrl[Last(processed').key] + 1
              old == results[i]
              new == results'[i]
          IN /\ lastAppend'.mode = "prefer-incoming"
             /\ new.title = IF inc.title # Undefined /\ Trim(inc.title) # <<>>
                            THEN inc.title ELSE old.title
             /\ new.url = inc.url
             /\ new.summary = IF inc.summary # Undefined THEN inc.summary
                              ELSE old.summary
             /\ new.tags = IF inc.tags # Undefined THEN inc.tags ELSE old.tags
             /\ Len(results') = Len(results)
             /\ \A k \in 1..Len(results) : k # i => results'[k] = results[k]
             /\ indexByUrl' = indexByUrl ]_vars

\* C5 witness: a merge whose incoming item has a blank title and an empty
\* summary, into an item that had a summary.
C5_Witness ==
    /\ lastAppend.did = "merge"
    /\ ~HasTitle(lastAppend.item)
    /\ lastAppend.item.summary = <<>>
    /\ \E i \in 1..Len(results) :
          /\ KeyOf(results[i]) = Last(processed).key
          /\ results[i].summary = <<>>
          /\ results[i].title = <<"F">>

\* C22: under keep-first, an incoming item whose NormalizedURL is already
\* indexed leaves the destination list and the index map as they are: no field
\* of an existing item changes and nothing is appended.
C22_KeepFirstIgnores ==
    [][ ( /\ processed' # processed
          /\ lastAppend'.mode = "keep-first"
          /\ Last(processed').key \in DOMAIN indexByUrl )
        => /\ lastAppend'.did = "ignore"
           /\ results' = results
           /\ indexByUrl' = indexByUrl ]_vars

\* C22 witness: a keep-first item was ignored though it carries a title, a
\* summary and tags that the existing item of its NormalizedURL lacks.
C22_Witness ==
    /\ lastAppend.did = "ignore" /\ lastAppend.mode = "keep-first"
    /\ HasTitle(lastAppend.item)
    /\ lastAppend.item.summary # Undefined /\ lastAppend.item.tags # Undefined
    /\ \E i \in 1..Len(results) :
          /\ KeyOf(results[i]) = Last(processed).key
          /\ ~HasTitle(results[i])
          /\ results[i].summary = Undefined /\ results[i].tags = Undefined

\* An item of DirectItems can be handed to appendItems next.
CanAppendMore ==
    ENABLED (\E item \in DirectItems, mode \in {"keep-first", "prefer-incoming"} :
                DirectAppend(item, mode))

\* C23: an incoming item whose url is absent or empty is skipped in both
\* modes: the iteration raises nothing, leaves the destination list and the
\* index map as they are, and the loop goes on to the items after it.
C23_NoUrlSkipped ==
    /\ [][ ( /\ lastAppend' # lastAppend
             /\ lastAppend'.did # "dropped"
             /\ lastAppend'.item.url \in {Undefined, <<>>} )
           => /\ lastAppend'.did = "skip"
              /\ results' = results
              /\ indexByUrl' = indexByUrl
              /\ processed' = processed ]_vars
    /\ []( (caller = "direct" /\ lastAppend.did = "skip"
              /\ Len(processed) < MaxItems) => CanAppendMore )

\* C23 witness: appendItems under prefer-incoming skipped an item with the
\* empty string as url, with items in the destination and items still to come.
C23_Witness ==
    /\ caller = "direct"
    /\ lastAppend.did = "skip" /\ lastAppend.mode = "prefer-incoming"
    /\ lastAppend.item.url = <<>>
    /\ Len(results) >= 1 /\ Len(processed) < MaxItems

\* C27: a crawled page with status >= 400 (the status-500 placeholder too)
\* becomes no ContentItem: it adds nothing to the output and changes no item,
\* in particular not the title or the summary of a manual or filesystem item.
C27_ErrorPageAddsNothing ==
    [][ ( /\ lastAppend'.src = "sitemap"
          /\ lastAppend'.page.status >= 400
          /\ (lastAppend' # lastAppend \/ processed' # processed) )
        => /\ lastAppend'.did = "dropped"
           /\ results' = results
           /\ indexByUrl' = indexByUrl ]_vars

\* C27 witness: a page with status 404, a title and a description was dropped
\* while a manual item of its NormalizedURL is in the output.
C27_Witness ==
    /\ lastAppend.src = "sitemap" /\ lastAppend.did = "dropped"
    /\ lastAppend.page.status = 404
    /\ PageHasTitleAndDescription(lastAppend.page)
    /\ \E p \in 1..Len(manualInserted) :
          KeyOf(manualInserted[p]) = KeyOf(lastAppend.page)

\* C28: the index map and the destination list agree after every appendItems
\* step: one entry per destination item, the values are the positions
\* 0..length-1, and the item at the position of a key normalizes to that key,
\* also after a prefer-incoming merge replaced its url.
C28_IndexAgreesWithDestination ==
    /\ Cardinality(DOMAIN indexByUrl) = Len(results)
    /\ {indexByUrl[k] : k \in DOMAIN indexByUrl} = 0..(Len(results) - 1)
    /\ \A k \in DOMAIN indexByUrl :
          /\ indexByUrl[k] + 1 \in 1..Len(results)
          /\ normalizeContentUrl(results[indexByUrl[k] + 1].url, siteUrl) = k

\* C28 witness: a prefer-incoming merge replaced the url of an item by another
\* spelling of it, in a destination of several items.
C28_Witness ==
    /\ lastAppend.did = "merge"
    /\ Len(results) >= 2
    /\ \E i \in 1..Len(results) :
          /\ results[i].url = lastAppend.item.url
          /\ results[i].url # KeyOf(results[i])
          /\ \E k \in 1..Len(processed) :
                processed[k].key = KeyOf(results[i]) /\ k < Len(processed)

----------------------------------------------------------------------------
(* Robots rules: compilePattern, getLongestMatch, isAllowedByGroup *)

\* The raw pattern of the PatternRule of a robots.txt value.  Its regex is "^"
\* followed by the raw pattern with "*" as ".*", "$" as the end anchor and every
\* other character literal; MatchFrom below is that regex.
compilePattern(pattern) ==
    LET normalized == IF Len(Trim(pattern)) = 0 THEN <<"/">> ELSE Trim(pattern)
    IN IF Head(normalized) = "/" THEN normalized ELSE <<"/">> \o normalized

RECURSIVE MatchFrom(_, _), StarMatch(_, _, _)

\* path.match(rule.regex): the length of match[0], the match of the pattern at
\* the start of s that a backtracking matcher with a greedy ".*" finds first,
\* or -1 when there is none.
MatchFrom(pat, s) ==
    IF pat = <<>> THEN 0
    ELSE IF Head(pat) = "*" THEN StarMatch(Tail(pat), s, Len(s))
    ELSE IF Head(pat) = "$"
    THEN IF s = <<>> THEN MatchFrom(Tail(pat), s) ELSE -1
    ELSE IF s # <<>> /\ Head(s) = Head(pat)
    THEN LET r == MatchFrom(Tail(pat), Tail(s)) IN IF r < 0 THEN -1 ELSE 1 + r
    ELSE -1

\* ".*" taking k characters, then k - 1, ... until the rest matches.
StarMatch(rest, s, k) ==
    IF k < 0 THEN -1
    ELSE LET r == MatchFrom(rest, SubSeq(s, k + 1, Len(s))) IN
         IF r >= 0 THEN k + r ELSE StarMatch(rest, s, k - 1)

RECURSIVE getLongestMatch(_, _)
getLongestMatch(path, rules) ==
    IF rules = <<>> THEN 0
    ELSE LET len == MatchFrom(Last(rules), path)
             longest == getLongestMatch(path, Front(rules))
         IN IF len > 0 /\ len > longest THEN len ELSE longest

\* Mutant: a tie goes to Disallow.
isAllowedByGroup_TieDisallows(target, group) ==
    LET t == IF target = <<>> THEN <<"/">> ELSE target
        longestDisallow == getLongestMatch(t, group.disallow)
    IN IF longestDisallow = 0 THEN TRUE
       ELSE getLongestMatch(t, group.allow) > longestDisallow

\* target is url.pathname followed by url.search.
isAllowedByGroup(target, group) ==
    LET t == IF target = <<>> THEN <<"/">> ELSE target
        longestDisallow == getLongestMatch(t, group.disallow)
    IN IF longestDisallow = 0 THEN TRUE
       ELSE getLongestMatch(t, group.allow) >= longestDisallow

\* The rules of one group.
MaxRules == 3

RuleValues ==
    { <<"/", "a">>, <<"/", "a", "/", "b">>, <<"a", "/", "x", " ">>, <<>>,
      <<"/", "a", "*", "c">>, <<"/", "a", "$">> }

Targets ==
    { <<"/">>, <<"/", "a">>, <<"/", "a", "/", "b">>, <<"/", "a", "/", "b", "/", "c">>,
      <<"/", "a", "/", "x">>, <<"/", "b", "?", "a">> }

GroupInit ==
    /\ robotsGroup = [allow |-> <<>>, disallow |-> <<>>]
    /\ robotsTarget \in Targets
    /\ robotsVerdict = "none"

\* parseRobotsTxt on an Allow or Disallow line of the group's block.
AddRule(directive, value) ==
    /\ robotsVerdict = "none"
    /\ Len(robotsGroup.allow) + Len(robotsGroup.disallow) < MaxRules
    /\ ~(directive = "disallow" /\ value = <<>>)
    /\ robotsGroup' = [robotsGroup EXCEPT
                          ![directive] = Append(@, compilePattern(value))]
    /\ UNCHANGED <<robotsTarget, robotsVerdict, notGroup>>

\* canCrawl's last step on the selected group.
Evaluate ==
    /\ robotsVerdict = "none"
    /\ robotsVerdict' = IF isAllowedByGroup(robotsTarget, robotsGroup)
                        THEN "allowed" ELSE "disallowed"
    /\ UNCHANGED <<robotsGroup, robotsTarget, notGroup>>

GroupNext ==
    \/ \E directive \in {"allow", "disallow"}, value \in RuleValues :
          AddRule(directive, value)
    \/ Evaluate

MergeIdle ==
    /\ siteUrl = <<OriginLower>>
    /\ caller = "none"
    /\ phase = "done"
    /\ results = <<>>
    /\ indexByUrl = <<>>
    /\ processed = <<>>
    /\ manualInserted = <<>>
    /\ lastAppend = [item |-> NoItem, mode |-> "none", did |-> "none",
                     src |-> "none", page |-> NoPage]

GroupStart == GroupInit /\ MergeIdle /\ CrawlIdle /\ FilterIdle /\ InitIdle /\ RenderIdle /\ ParseIdle /\ RetryIdle

GroupSpec == GroupStart /\ [][GroupNext]_vars

Matches(rule, target) == MatchFrom(rule, target) >= 0

LongestOf(rules, target) ==
    LET lens == {MatchFrom(r, target) : r \in Range(rules)} \cup {0}
    IN CHOOSE n \in lens : \A m \in lens : m <= n

ExampleGroup ==
    [allow |-> << <<"/", "a", "/", "b">> >>, disallow |-> << <<"/", "a">> >>]

\* C7: within the group a URL is allowed iff no disallow rule matches its
\* path+query, or the longest allow match is at least as long as the longest
\* disallow match; with Disallow: /a and Allow: /a/b, /a/b/c is allowed and
\* /a/x is not.
C7_LongestMatchWins ==
    robotsVerdict # "none" =>
        /\ robotsVerdict = "allowed" <=>
              \/ \A r \in Range(robotsGroup.disallow) : ~Matches(r, robotsTarget)
              \/ LongestOf(robotsGroup.allow, robotsTarget)
                    >= LongestOf(robotsGroup.disallow, robotsTarget)
        /\ (robotsGroup = ExampleGroup /\ robotsTarget = <<"/", "a", "/", "b", "/", "c">>)
              => robotsVerdict = "allowed"
        /\ (robotsGroup = ExampleGroup /\ robotsTarget = <<"/", "a", "/", "x">>)
              => robotsVerdict = "disallowed"

\* C7 witness: a tie between an Allow and a Disallow rule that both match.
C7_Witness ==
    /\ robotsVerdict = "allowed"
    /\ \E r \in Range(robotsGroup.disallow) : Matches(r, robotsTarget)
    /\ LongestOf(robotsGroup.allow, robotsTarget)
          = LongestOf(robotsGroup.disallow, robotsTarget)
    /\ Len(robotsGroup.allow) + Len(robotsGroup.disallow) = MaxRules

----------------------------------------------------------------------------
(* RobotsManager *)

UserAgentLower == "@soya/llms-txtbot/dev"
\* lower.split(/[\/\s]/)[0]
UserAgentToken == "@soya"

\* The agent whose group is used, or "none".
pickGroupForAgent(groups) ==
    IF UserAgentLower \in DOMAIN groups THEN UserAgentLower
    ELSE IF UserAgentToken \in DOMAIN groups THEN UserAgentToken
    ELSE IF "*" \in DOMAIN groups THEN "*"
    ELSE "none"

\* A cache entry: null, or a parsed RobotsMap.
NullRules == [ok |-> FALSE, groups |-> <<>>]
Rules(groups) == [ok |-> TRUE, groups |-> groups]

\* new URL(targetUrl) throws
Unparsable(url) == ~IsAbsolute(url) \/ ParseAbsolute(url) = Throws

\* url.origin
UrlOrigin(url) ==
    IF Head(url) = FileScheme THEN "null" ELSE LowerCased(Head(url))

\* url.pathname followed by url.search
UrlTarget(url) == Tail(ParseAbsolute(url))

\* Mutant: an origin without loaded rules is closed.
Verdict_FailClosed(url, rules) ==
    IF ~rules.ok THEN "disallowed"
    ELSE LET agent == pickGroupForAgent(rules.groups) IN
         IF agent = "none" THEN "allowed"
         ELSE IF isAllowedByGroup(UrlTarget(url), rules.groups[agent])
         THEN "allowed" ELSE "disallowed"

\* canCrawl once the rules of the origin are loaded.
Verdict(url, rules) ==
    IF ~rules.ok THEN "allowed"
    ELSE LET agent == pickGroupForAgent(rules.groups) IN
         IF agent = "none" THEN "allowed"
         ELSE IF isAllowedByGroup(UrlTarget(url), rules.groups[agent])
         THEN "allowed" ELSE "disallowed"

\* What the robots.txt request of an origin can end in: fetchWithRetry throws
\* after its attempts, the response is not ok, reading or parsing the body
\* throws, or the body parses to a RobotsMap.
RobotsMaps ==
    { ("otherbot" :> [allow |-> <<>>, disallow |-> << <<"/">> >>])
         @@ ("*" :> [allow |-> << <<"/", "a", "/", "b">> >>,
                     disallow |-> << <<"/", "a">> >>]),
      ("@soya" :> [allow |-> <<>>, disallow |-> << <<"/", "a", "/", "b">> >>])
         @@ ("*" :> [allow |-> <<>>, disallow |-> << <<"/">> >>]) }

RobotsReplies ==
    { [kind |-> k, groups |-> <<>>] : k \in {"threw", "non2xx", "badBody"} }
    \cup { [kind |-> "ok", groups |-> g] : g \in RobotsMaps }

\* The retries loadRules passes to fetchWithRetry.
RobotsRetries == 2

\* Mutant: the throw is one attempt late.
LastAttempt_OneLate(i, retries) == i = retries

\* if (i === retries - 1) throw error
LastAttempt(i, retries) == i = retries - 1

\* Mutant: only parsed rules are cached.
CacheSet_OnlyParsed(cache, origin, rules) ==
    IF rules.ok THEN (origin :> rules) @@ cache ELSE cache

\* this.cache.set(origin, ...)
CacheSet(cache, origin, rules) == (origin :> rules) @@ cache

\* loadRules: the cache entry after the request.
LoadedRules(reply) ==
    IF reply.kind = "ok" THEN Rules(reply.groups) ELSE NullRules

----------------------------------------------------------------------------
(* crawlFromSitemap *)

MaxUrls == 3
MaxConcurrency == 2
MaxBatches == MaxUrls + 1

CrawlUrls ==
    { <<OriginLower, "/", "a">>, <<OriginLower, "/", "a", "/", "b">>,
      <<OriginOther, "/", "x">>, <<"/", "a">>, <<FileScheme, "/", "a">> }

\* The sequences of at most n distinct elements of S.
RECURSIVE SeqsUpTo(_, _)
SeqsUpTo(S, n) ==
    IF n = 0 THEN { <<>> }
    ELSE LET shorter == SeqsUpTo(S, n - 1) IN
         shorter \cup
         { Append(p[1], p[2]) :
             p \in { r \in shorter \X S : Len(r[1]) = n - 1 /\ r[2] \notin Range(r[1]) } }

----------------------------------------------------------------------------
(* parseSitemap *)

MaxChildren == 2

\* What a sitemap URL leads to: a urlset with the loc of its url elements, a
\* sitemap index with the documents of its sitemap elements, a document that
\* is neither (an error page, an empty document), or nothing: readFile or
\* fetchWithRetry throws.
Urlset(urls) == [kind |-> "urlset", urls |-> urls, children |-> <<>>]
Index(children) == [kind |-> "index", urls |-> <<>>, children |-> children]
NoSitemap == [kind |-> "other", urls |-> <<>>, children |-> <<>>]
Unreachable == [kind |-> "threw", urls |-> <<>>, children |-> <<>>]

\* One parseSitemap call: its document, whether xml has been read, the number
\* of nested sitemaps resolved and the local allUrls.
Frame(doc) == [doc |-> doc, fetched |-> FALSE, next |-> 0, acc |-> <<>>]

\* Mutant: a document that cannot be read counts as an empty one.
Readable_Always(doc) == TRUE

\* readFile / fetchWithRetry and response.text() did not throw
Readable(doc) == doc.kind # "threw"

\* Mutant: the URLs of a nested sitemap are put in front.
Concat_Prepend(acc, urls) == urls \o acc

\* allUrls.push(...urls)
Concat(acc, urls) == acc \o urls

\* What a parseSitemap call returns once its nested sitemaps are resolved.
Returned(frame) ==
    IF frame.doc.kind = "index" THEN frame.acc
    ELSE IF frame.doc.kind = "urlset" THEN frame.doc.urls
    ELSE <<>>

SitemapUrlA == <<OriginLower, "/", "a">>
SitemapUrlB == <<OriginLower, "/", "a", "/", "b">>
SitemapUrlX == <<OriginOther, "/", "x">>
SitemapUrlR == <<"/", "a">>
SitemapUrlF == <<FileScheme, "/", "a">>

SitemapLeaves ==
    { Urlset(<<SitemapUrlA>>), Urlset(<<SitemapUrlB, SitemapUrlX>>),
      Urlset(<<SitemapUrlR, SitemapUrlA, SitemapUrlF>>), NoSitemap, Unreachable }

NestedIndexes ==
    { Index(<<Urlset(<<SitemapUrlX>>), Urlset(<<SitemapUrlA, SitemapUrlB>>)>>),
      Index(<<Urlset(<<SitemapUrlF>>), Unreachable>>),
      Index(<<>>) }

\* The documents of the parseSitemap runs.
SitemapDocs ==
    SitemapLeaves \cup
    { Index(c) : c \in SeqsUpTo(SitemapLeaves \cup NestedIndexes, MaxChildren) }

\* The documents of the crawls: every flat sitemap, and some others.
CrawlSitemaps ==
    { Urlset(urls) : urls \in SeqsUpTo(CrawlUrls, MaxUrls) } \cup
    { Unreachable, NoSitemap,
      Index(<<Urlset(<<SitemapUrlA, SitemapUrlX>>), Urlset(<<SitemapUrlB>>)>>),
      Index(<<Urlset(<<SitemapUrlA>>), Unreachable>>),
      Index(<<NoSitemap, Index(<<Urlset(<<SitemapUrlB>>)>>)>>) }

----------------------------------------------------------------------------
(* crawlFromSitemap, continued *)

\* url.includes(pattern), on tokens
Includes(url, pattern) ==
    \E k \in 0..(Len(url) - Len(pattern)) :
        SubSeq(url, k + 1, k + Len(pattern)) = pattern

\* Mutant: the include list is looked at first.
shouldIncludeUrl_IncludeFirst(url, include, exclude) ==
    IF \E k \in 1..Len(include) : Includes(url, include[k]) THEN TRUE
    ELSE IF \E k \in 1..Len(exclude) : Includes(url, exclude[k]) THEN FALSE
    ELSE Len(include) = 0

\* include and exclude are lists of patterns; <<>> is an absent or empty list.
shouldIncludeUrl(url, include, exclude) ==
    IF \E k \in 1..Len(exclude) : Includes(url, exclude[k]) THEN FALSE
    ELSE IF Len(include) > 0
    THEN \E k \in 1..Len(include) : Includes(url, include[k])
    ELSE TRUE

RECURSIVE Filter(_, _, _)
Filter(urls, include, exclude) ==
    IF urls = <<>> THEN <<>>
    ELSE (IF shouldIncludeUrl(Head(urls), include, exclude) /\ Head(urls) # <<>>
          THEN <<Head(urls)>> ELSE <<>>)
         \o Filter(Tail(urls), include, exclude)

filteredUrls == Filter(allUrls, crawlOpts.include, crawlOpts.exclude)

Min(a, b) == IF a < b THEN a ELSE b
Max(a, b) == IF a > b THEN a ELSE b

\* s.slice(0, n)
Slice(s, n) ==
    IF n >= 0 THEN SubSeq(s, 1, Min(n, Len(s)))
    ELSE SubSeq(s, 1, Max(Len(s) + n, 0))

\* Mutant: maxPages counts the sitemap's URLs, the dropped ones included.
Truncated_CountsDropped(allowed) ==
    IF crawlOpts.hasMaxPages
    THEN SelectSeq(allowed, LAMBDA u : u \in Range(Slice(allUrls, crawlOpts.maxPages)))
    ELSE allowed

Truncated(allowed) ==
    IF crawlOpts.hasMaxPages THEN Slice(allowed, crawlOpts.maxPages) ELSE allowed

\* Mutant: the batch is one URL larger than concurrency.
Taken_OneMore(q, concurrency) == SubSeq(q, 1, Min(Max(concurrency, 0) + 1, Len(q)))

\* The parts of queue.splice(0, concurrency): what it returns and what stays.
Taken(q, concurrency) == SubSeq(q, 1, Min(Max(concurrency, 0), Len(q)))
Left(q, concurrency) == SubSeq(q, Min(Max(concurrency, 0), Len(q)) + 1, Len(q))

\* Mutant: the catch of the robots loop does not push the URL.
AllowedAfter_DropThrown(allowed, url, outcome) ==
    IF outcome = "allowed" THEN Append(allowed, url) ELSE allowed

\* Mutant: the `continue` of a disallowed URL is missing.
AllowedAfter_NoContinue(allowed, url, outcome) == Append(allowed, url)

\* The robots loop: the allowed list after the evaluation of url.
AllowedAfter(allowed, url, outcome) ==
    IF outcome = "disallowed" THEN allowed ELSE Append(allowed, url)

\* Mutant: the delay does not look at the queue.
NeedsDelay_AfterLast(q, delayMs) == delayMs > 0

\* queue.length > 0 && delayMs > 0
NeedsDelay(q, delayMs) == Len(q) > 0 /\ delayMs > 0

Pending == NoPage

\* Mutant: a result is stored in the first free slot, in completion order.
Settled_CompletionOrder(slots, i, page) ==
    LET j == CHOOSE j \in 1..Len(slots) :
                 slots[j] = Pending /\ \A k \in 1..(j - 1) : slots[k] # Pending
    IN [slots EXCEPT ![j] = page]

\* Promise.all: the value of the i-th promise goes to the i-th slot.
Settled(slots, i, page) == [slots EXCEPT ![i] = page]

\* Mutant: the placeholder of a failed fetch is not pushed.
PushAll_DropFailed(done, batchPages) ==
    done \o SelectSeq(batchPages, LAMBDA p : p.status # 500)

\* pages.push(...batchResults)
PushAll(done, batchPages) == done \o batchPages

\* Mutant: every response that is not 2xx becomes the placeholder.
crawlPage_PlaceholderOnError(url, outcome) ==
    IF outcome = "ok" THEN Page(url, 200, <<"H">>, <<"d">>, Paragraphs)
    ELSE Page(url, 500, Undefined, Undefined, <<>>)

\* crawlPage: the Page of a fetch that ended in outcome.
crawlPage(url, outcome) ==
    IF outcome = "threw" THEN Page(url, 500, Undefined, Undefined, <<>>)
    ELSE IF outcome = "http404" THEN Page(url, 404, <<"N">>, Undefined, Paragraphs)
    ELSE Page(url, 200, <<"H">>, <<"d">>, Paragraphs)

FetchOutcomes == {"ok", "http404", "threw"}

SomeInclude == << <<"/", "a">>, <<"/", "x">> >>
SomeExclude == << <<"a", "/", "b">> >>

\* respectRobotsTxt, maxPages (0 for absent), delayMs, include and exclude of a run.
CrawlSettings ==
    { [respectRobotsTxt |-> TRUE, maxPages |-> 0, delayMs |-> 100,
       include |-> <<>>, exclude |-> <<>>],
      [respectRobotsTxt |-> TRUE, maxPages |-> 2, delayMs |-> 0,
       include |-> SomeInclude, exclude |-> SomeExclude],
      [respectRobotsTxt |-> FALSE, maxPages |-> 2, delayMs |-> 100,
       include |-> <<>>, exclude |-> <<>>],
      [respectRobotsTxt |-> FALSE, maxPages |-> 0, delayMs |-> 0,
       include |-> SomeInclude, exclude |-> SomeExclude] }

CrawlInit ==
    /\ sitemapDoc \in CrawlSitemaps
    /\ sitemapStack = <<Frame(sitemapDoc)>>
    /\ sitemapLog = <<sitemapDoc>>
    /\ allUrls = <<>>
    /\ \E c \in 0..MaxConcurrency, f \in CrawlSettings :
          crawlOpts = [concurrency |-> c, delayMs |-> f.delayMs,
                       hasMaxPages |-> f.maxPages > 0, maxPages |-> f.maxPages,
                       respectRobotsTxt |-> f.respectRobotsTxt,
                       include |-> f.include, exclude |-> f.exclude]
    /\ pc = "sitemap"
    /\ robotsCache = <<>>
    /\ robotsPending = "none"
    /\ robotsRequests = <<>>
    /\ robotsAttempt = 0
    /\ robotsFailed = {}
    /\ robotsLog = <<>>
    /\ allowedUrls = <<>>
    /\ targets = <<>>
    /\ queue = <<>>
    /\ pages = <<>>
    /\ batch = <<>>
    /\ batchResults = <<>>
    /\ batchSizes = <<>>
    /\ delaysAfter = <<>>
    /\ delaysElapsed = 0
    /\ fetchLog = <<>>
    /\ outOfOrder = FALSE

\* The part of crawlFromSitemap that parseSitemap leaves alone.
SitemapFrame ==
    UNCHANGED <<crawlOpts, sitemapDoc, robotsCache, robotsPending, robotsRequests,
                robotsLog, allowedUrls, targets, queue, pages, batch, batchResults,
                batchSizes, delaysAfter, delaysElapsed, fetchLog, retryVars, outOfOrder, notCrawl>>

\* The read of the innermost call ends: xml is there, or the exception leaves
\* every parseSitemap call and crawlFromSitemap, none of which catches it.
SitemapResponse ==
    /\ pc = "sitemap"
    /\ ~Last(sitemapStack).fetched
    /\ IF Readable(Last(sitemapStack).doc)
       THEN /\ sitemapStack' = [sitemapStack EXCEPT ![Len(sitemapStack)].fetched = TRUE]
            /\ pc' = "sitemap"
       ELSE /\ sitemapStack' = <<>>
            /\ pc' = "rejected"
    /\ UNCHANGED <<allUrls, sitemapLog>>
    /\ SitemapFrame

\* for (const sitemap of sitemaps): await parseSitemap(sitemap.loc)
SitemapDescend ==
    /\ pc = "sitemap"
    /\ LET top == Last(sitemapStack) IN
       /\ top.fetched
       /\ top.doc.kind = "index"
       /\ top.next < Len(top.doc.children)
       /\ sitemapStack' = Append(sitemapStack, Frame(top.doc.children[top.next + 1]))
       /\ sitemapLog' = Append(sitemapLog, top.doc.children[top.next + 1])
    /\ UNCHANGED <<allUrls, pc>>
    /\ SitemapFrame

\* A parseSitemap call returns, to the call around it or to crawlFromSitemap.
SitemapReturn ==
    /\ pc = "sitemap"
    /\ LET top == Last(sitemapStack)
           n == Len(sitemapStack)
       IN /\ top.fetched
          /\ top.doc.kind = "index" => top.next = Len(top.doc.children)
          /\ IF n = 1
             THEN /\ allUrls' = Returned(top)
                  /\ sitemapStack' = <<>>
                  /\ pc' = "start"
             ELSE /\ sitemapStack' =
                        [Front(sitemapStack) EXCEPT
                            ![n - 1].acc = Concat(sitemapStack[n - 1].acc, Returned(top)),
                            ![n - 1].next = sitemapStack[n - 1].next + 1]
                  /\ UNCHANGED <<allUrls, pc>>
    /\ UNCHANGED sitemapLog
    /\ SitemapFrame

SitemapNext == SitemapResponse \/ SitemapDescend \/ SitemapReturn

\* const targets = ...; const queue = [...targets]
Targeted(allowed) ==
    /\ allowedUrls' = allowed
    /\ targets' = Truncated(allowed)
    /\ queue' = Truncated(allowed)

\* After parseSitemap: the filter, and the robots manager if it is wanted.
Start ==
    /\ pc = "start"
    /\ IF crawlOpts.respectRobotsTxt /\ Len(filteredUrls) > 0
       THEN /\ pc' = "robots"
            /\ UNCHANGED <<allowedUrls, targets, queue>>
       ELSE /\ pc' = "batch"
            /\ Targeted(filteredUrls)
    /\ UNCHANGED <<crawlOpts, allUrls, robotsCache, robotsPending, robotsRequests,
                   robotsLog, pages, batch, batchResults, batchSizes, delaysAfter,
                   delaysElapsed, fetchLog, sitemapVars, retryVars, outOfOrder, notCrawl>>

\* The end of one iteration of the robots loop.
Evaluated(url, outcome) ==
    /\ robotsLog' = Append(robotsLog, [url |-> url, outcome |-> outcome])
    /\ IF Len(robotsLog) + 1 = Len(filteredUrls)
       THEN /\ pc' = "batch"
            /\ Targeted(AllowedAfter(allowedUrls, url, outcome))
       ELSE /\ pc' = "robots"
            /\ allowedUrls' = AllowedAfter(allowedUrls, url, outcome)
            /\ UNCHANGED <<targets, queue>>

\* robotsManager.canCrawl(url) up to its first request or, without one, its end.
RobotsCheck ==
    /\ pc = "robots"
    /\ LET url == filteredUrls[Len(robotsLog) + 1] IN
       IF Unparsable(url)
       THEN Evaluated(url, "threw") /\ UNCHANGED <<robotsPending, robotsRequests>>
       ELSE IF UrlOrigin(url) \in DOMAIN robotsCache
       THEN /\ Evaluated(url, Verdict(url, robotsCache[UrlOrigin(url)]))
            /\ UNCHANGED <<robotsPending, robotsRequests>>
       ELSE IF UrlOrigin(url) = "null"
       THEN Evaluated(url, "threw") /\ UNCHANGED <<robotsPending, robotsRequests>>
       ELSE /\ robotsPending' = UrlOrigin(url)
            /\ robotsRequests' = Append(robotsRequests, UrlOrigin(url))
            /\ pc' = "robotsFetch"
            /\ UNCHANGED <<robotsLog, allowedUrls, targets, queue>>
    /\ UNCHANGED <<crawlOpts, allUrls, robotsCache, pages, batch, batchResults,
                   batchSizes, delaysAfter, delaysElapsed, fetchLog, sitemapVars,
                   retryVars, outOfOrder, notCrawl>>

\* fetchWithRetry: the fetch of robots.txt threw and it was not the last
\* attempt; after the wait the next attempt is made.
RobotsRetry ==
    /\ pc = "robotsFetch"
    /\ ~LastAttempt(robotsAttempt, RobotsRetries)
    /\ robotsAttempt' = robotsAttempt + 1
    /\ UNCHANGED <<crawlOpts, allUrls, pc, robotsCache, robotsPending, robotsRequests,
                   robotsFailed, robotsLog, allowedUrls, targets, queue, pages, batch,
                   batchResults, batchSizes, delaysAfter, delaysElapsed, fetchLog,
                   sitemapVars, outOfOrder, notCrawl>>

\* The robots.txt request ends: loadRules caches, canCrawl decides.
RobotsResponse(reply) ==
    /\ pc = "robotsFetch"
    /\ reply.kind = "threw" => LastAttempt(robotsAttempt, RobotsRetries)
    /\ LET url == filteredUrls[Len(robotsLog) + 1] IN
       /\ robotsCache' = CacheSet(robotsCache, robotsPending, LoadedRules(reply))
       /\ Evaluated(url, Verdict(url, LoadedRules(reply)))
    /\ robotsFailed' = IF reply.kind = "ok" THEN robotsFailed
                       ELSE robotsFailed \cup {robotsPending}
    /\ robotsPending' = "none"
    /\ robotsAttempt' = 0
    /\ UNCHANGED <<crawlOpts, allUrls, robotsRequests, pages, batch, batchResults,
                   batchSizes, delaysAfter, delaysElapsed, fetchLog, sitemapVars,
                   outOfOrder, notCrawl>>

\* while (queue.length > 0): splice a batch and call crawlPage on each URL.
BatchStart ==
    /\ pc = "batch"
    /\ Len(queue) > 0
    /\ Len(batchSizes) < MaxBatches
    /\ LET taken == Taken(queue, crawlOpts.concurrency) IN
       /\ batch' = taken
       /\ queue' = Left(queue, crawlOpts.concurrency)
       /\ batchResults' = [i \in 1..Len(taken) |-> Pending]
       /\ batchSizes' = Append(batchSizes, Len(taken))
       /\ fetchLog' = fetchLog \o [i \in 1..Len(taken) |->
                                     [url |-> taken[i], batch |-> Len(batchSizes) + 1,
                                      outcome |-> "pending"]]
    /\ pc' = "fetching"
    /\ UNCHANGED <<crawlOpts, allUrls, robotsCache, robotsPending, robotsRequests,
                   robotsLog, allowedUrls, targets, pages, delaysAfter,
                   delaysElapsed, sitemapVars, retryVars, outOfOrder, notCrawl>>

\* One crawlPage call of the batch ends.
PageDone(i, outcome) ==
    /\ pc = "fetching"
    /\ i \in 1..Len(batch)
    /\ batchResults[i] = Pending
    /\ batchResults' = Settled(batchResults, i, crawlPage(batch[i], outcome))
    /\ fetchLog' = [fetchLog EXCEPT
                       ![Len(fetchLog) - Len(batch) + i].outcome = outcome]
    /\ outOfOrder' = (outOfOrder \/ \E j \in 1..(i - 1) : batchResults[j] = Pending)
    /\ UNCHANGED <<crawlOpts, allUrls, pc, robotsCache, robotsPending, robotsRequests,
                   robotsLog, allowedUrls, targets, queue, pages, batch, batchSizes,
                   delaysAfter, delaysElapsed, sitemapVars, retryVars, notCrawl>>

\* Promise.all resolves: the pages are pushed, and the delay starts if wanted.
BatchCollect ==
    /\ pc = "fetching"
    /\ \A i \in 1..Len(batch) : batchResults[i] # Pending
    /\ pages' = PushAll(pages, batchResults)
    /\ batch' = <<>>
    /\ batchResults' = <<>>
    /\ IF NeedsDelay(queue, crawlOpts.delayMs)
       THEN pc' = "delay" /\ delaysAfter' = Append(delaysAfter, Len(batchSizes))
       ELSE pc' = "batch" /\ UNCHANGED delaysAfter
    /\ UNCHANGED <<crawlOpts, allUrls, robotsCache, robotsPending, robotsRequests,
                   robotsLog, allowedUrls, targets, queue, batchSizes,
                   delaysElapsed, fetchLog, sitemapVars, retryVars, outOfOrder, notCrawl>>

\* delay(delayMs) resolves.
DelayElapsed ==
    /\ pc = "delay"
    /\ delaysElapsed' = delaysElapsed + 1
    /\ pc' = "batch"
    /\ UNCHANGED <<crawlOpts, allUrls, robotsCache, robotsPending, robotsRequests,
                   robotsLog, allowedUrls, targets, queue, pages, batch, batchResults,
                   batchSizes, delaysAfter, fetchLog, sitemapVars, retryVars, outOfOrder, notCrawl>>

\* The queue is empty: return { pages }.
Finish ==
    /\ pc = "batch"
    /\ Len(queue) = 0
    /\ pc' = "done"
    /\ UNCHANGED <<crawlOpts, allUrls, robotsCache, robotsPending, robotsRequests,
                   robotsLog, allowedUrls, targets, queue, pages, batch, batchResults,
                   batchSizes, delaysAfter, delaysElapsed, fetchLog, sitemapVars, retryVars, outOfOrder, notCrawl>>

CrawlNext ==
    \/ SitemapResponse
    \/ SitemapDescend
    \/ SitemapReturn
    \/ Start
    \/ RobotsCheck
    \/ RobotsRetry
    \/ \E reply \in RobotsReplies : RobotsResponse(reply)
    \/ BatchStart
    \/ \E i \in 1..MaxConcurrency, outcome \in FetchOutcomes : PageDone(i, outcome)
    \/ BatchCollect
    \/ DelayElapsed
    \/ Finish

CrawlStart == CrawlInit /\ MergeIdle /\ GroupIdle /\ FilterIdle /\ InitIdle /\ RenderIdle /\ ParseIdle /\ RetryIdle

CrawlSpec == CrawlStart /\ [][CrawlNext]_vars

\* parseSitemap alone, on every document of SitemapDocs.
SitemapInit ==
    /\ sitemapDoc \in SitemapDocs
    /\ sitemapStack = <<Frame(sitemapDoc)>>
    /\ sitemapLog = <<sitemapDoc>>
    /\ allUrls = <<>>
    /\ crawlOpts = [concurrency |-> 1, delayMs |-> 0, hasMaxPages |-> FALSE,
                    maxPages |-> 0, respectRobotsTxt |-> FALSE,
                    include |-> <<>>, exclude |-> <<>>]
    /\ pc = "sitemap"
    /\ robotsCache = <<>>
    /\ robotsPending = "none"
    /\ robotsRequests = <<>>
    /\ robotsAttempt = 0
    /\ robotsFailed = {}
    /\ robotsLog = <<>>
    /\ allowedUrls = <<>>
    /\ targets = <<>>
    /\ queue = <<>>
    /\ pages = <<>>
    /\ batch = <<>>
    /\ batchResults = <<>>
    /\ batchSizes = <<>>
    /\ delaysAfter = <<>>
    /\ delaysElapsed = 0
    /\ fetchLog = <<>>
    /\ outOfOrder = FALSE

SitemapStart == SitemapInit /\ MergeIdle /\ GroupIdle /\ FilterIdle /\ InitIdle /\ RenderIdle /\ ParseIdle /\ RetryIdle

\* Every await of parseSitemap is a request that ends, so a step that can be
\* taken is taken.
SitemapSpec == SitemapStart /\ [][SitemapNext]_vars /\ WF_vars(SitemapNext)

----------------------------------------------------------------------------
(* Properties of the crawl *)

InFlight == {i \in 1..Len(batchResults) : batchResults[i] = Pending}

Disallowed(url) ==
    \E k \in 1..Len(robotsLog) :
        robotsLog[k].url = url /\ robotsLog[k].outcome = "disallowed"

\* C6: with robots compliance on, crawlPage is never called on a URL for which
\* canCrawl returned false, and when the first page fetch is issued every
\* robots evaluation, the robots.txt requests included, has completed.
C6_RobotsBeforeFetch ==
    crawlOpts.respectRobotsTxt =>
        /\ \A k \in 1..Len(fetchLog) : ~Disallowed(fetchLog[k].url)
        /\ fetchLog # <<>> =>
              /\ Len(robotsLog) = Len(filteredUrls)
              /\ robotsPending = "none"
              /\ pc \notin {"robots", "robotsFetch"}

\* C6 witness: two origins were asked for robots.txt, a URL was disallowed and
\* another one is being fetched.
C6_Witness ==
    /\ crawlOpts.respectRobotsTxt
    /\ Len(robotsRequests) = 2
    /\ \E k \in 1..Len(robotsLog) : robotsLog[k].outcome = "disallowed"
    /\ InFlight # {}

Threw(k) == robotsLog[k].outcome = "threw"

\* C8 as stated: canCrawl raises for no input.
C8_CanCrawlNeverRaises ==
    \A k \in 1..Len(robotsLog) : ~Threw(k)

\* C8 amended: canCrawl raises exactly when targetUrl does not parse as a URL
\* or has an opaque origin (crawlFromSitemap catches that and allows the URL);
\* otherwise it does not raise, and a robots.txt request that failed (thrown,
\* not ok, unreadable body) gives "allowed".
C8_RaisesOnlyOnBadUrl ==
    \A k \in 1..Len(robotsLog) :
        LET url == robotsLog[k].url IN
        /\ Threw(k) <=> (Unparsable(url) \/ UrlOrigin(url) = "null")
        /\ ~Threw(k) =>
              /\ UrlOrigin(url) \in DOMAIN robotsCache
              /\ ~robotsCache[UrlOrigin(url)].ok => robotsLog[k].outcome = "allowed"

\* C8 witness: one call raised, and one call on an origin whose robots.txt
\* request failed returned true.
C8_Witness ==
    /\ \E k \in 1..Len(robotsLog) : Threw(k)
    /\ \E k \in 1..Len(robotsLog) :
          /\ ~Threw(k)
          /\ ~robotsCache[UrlOrigin(robotsLog[k].url)].ok
          /\ UrlTarget(robotsLog[k].url) = <<"/", "a", "/", "b">>

CeilDiv(n, c) == (n + c - 1) \div c

\* C9: n targets and a positive concurrency c give ceil(n/c) batches, all of
\* size c but possibly the last, and a delay after every batch but the last;
\* no delay at all with delayMs = 0.
C9_BatchesAndDelays ==
    (pc = "done" /\ crawlOpts.concurrency >= 1) =>
        LET n == Len(targets)
            c == crawlOpts.concurrency
            k == CeilDiv(n, c)
        IN /\ Len(batchSizes) = k
           /\ \A j \in 1..k : batchSizes[j] = IF j < k THEN c ELSE n - c * (k - 1)
           /\ delaysAfter = IF crawlOpts.delayMs > 0
                            THEN [j \in 1..(k - 1) |-> j] ELSE <<>>
           /\ delaysElapsed = Len(delaysAfter)

\* C9 witness: three targets, concurrency 2: batches of 2 and 1, one delay
\* between them.
C9_Witness ==
    /\ pc = "done"
    /\ crawlOpts.concurrency = 2 /\ crawlOpts.delayMs > 0
    /\ Len(targets) = 3
    /\ batchSizes = <<2, 1>>
    /\ delaysAfter = <<1>>

\* C10: never more than concurrency page fetches in flight; a batch is issued
\* only when every fetch of the batches before it has completed and been
\* collected and, with a delay configured, the delay after the previous batch
\* has elapsed.
C10_BoundedInFlight ==
    [][ /\ Cardinality(InFlight') <= crawlOpts.concurrency
        /\ Len(batchSizes') > Len(batchSizes) =>
              /\ InFlight = {}
              /\ Len(pages) = Len(fetchLog)
              /\ \A j \in 1..Len(pages) : pages[j].status # 0
              /\ (Len(batchSizes) >= 1 /\ crawlOpts.delayMs > 0) =>
                    /\ Len(delaysAfter) = Len(batchSizes)
                    /\ delaysElapsed = Len(batchSizes) ]_vars

\* C10 witness: the second batch is in flight after the first one, one page of
\* which failed, and the delay.
C10_Witness ==
    /\ Len(batchSizes) = 2 /\ InFlight # {}
    /\ crawlOpts.concurrency = 2
    /\ Len(pages) = 2 /\ pages[1].status = 500 /\ pages[2].status = 200
    /\ delaysElapsed = 1

Urls(ps) == [j \in 1..Len(ps) |-> ps[j].url]

\* C11: the pages are in the order of the targets, whatever the order in which
\* the fetches of a batch complete: pages[i].url = targets[i] for every i, and
\* at the end there is a page for every target.
C11_PagesInTargetOrder ==
    /\ \A j \in 1..Len(pages) : j <= Len(targets) /\ pages[j].url = targets[j]
    /\ pc = "done" => Urls(pages) = targets

\* C11 witness: a run of three targets has ended, and in its first batch the
\* second fetch completed before the first.
C11_Witness ==
    /\ pc = "done"
    /\ Len(pages) = 3
    /\ crawlOpts.concurrency = 2
    /\ outOfOrder

\* C12: crawlPage always resolves to a Page: a fetch that threw gives status
\* 500 and no markdown; the fetches issued with it and all later batches still
\* run, and at the end the number of pages is the number of targets.
C12_FailedFetchYieldsPlaceholder ==
    /\ \A k \in 1..Len(fetchLog) :
          \/ fetchLog[k].outcome = "pending"
          \/ LET page == IF k <= Len(pages) THEN pages[k]
                          ELSE IF k - Len(pages) <= Len(batchResults)
                          THEN batchResults[k - Len(pages)]
                          ELSE Pending
             IN /\ page # Pending
                /\ page.url = fetchLog[k].url
                /\ fetchLog[k].outcome = "threw" =>
                      /\ page.status = 500
                      /\ page.markdown = <<>>
    /\ pc = "done" =>
          /\ Len(pages) = Len(targets)
          /\ Len(fetchLog) = Len(targets)
          /\ \A k \in 1..Len(fetchLog) : fetchLog[k].outcome # "pending"

\* C12 witness: the first fetch of the first batch threw; the second fetch of
\* that batch and the next batch ran, and three pages came back.
C12_Witness ==
    /\ pc = "done"
    /\ Len(pages) = 3
    /\ fetchLog[1].outcome = "threw" /\ fetchLog[1].batch = 1
    /\ fetchLog[2].outcome = "ok" /\ fetchLog[2].batch = 1
    /\ fetchLog[3].outcome = "ok" /\ fetchLog[3].batch = 2

\* C13 as stated: a page whose response is not 2xx is the placeholder of a
\* failed fetch, status 500 without markdown.
C13_Non2xxIsPlaceholder ==
    \A k \in 1..Len(pages) :
        fetchLog[k].outcome = "http404" =>
            pages[k].status = 500 /\ pages[k].markdown = <<>>

\* C13 amended: a response that is not 2xx gives a Page with the status of the
\* response and the title and markdown converted from its body; only a fetch
\* that threw gives the placeholder with status 500 and no markdown.
C13_Non2xxKeepsStatus ==
    \A k \in 1..Len(pages) :
        /\ fetchLog[k].outcome = "http404" =>
              /\ pages[k].status = 404
              /\ pages[k].markdown # <<>>
              /\ pages[k].title # Undefined
        /\ (pages[k].status = 500 /\ pages[k].markdown = <<>>)
              <=> fetchLog[k].outcome = "threw"

\* C13 witness: the pages of a 404 response and of a fetch that threw, side by
\* side.
C13_Witness ==
    /\ Len(pages) >= 2
    /\ fetchLog[1].outcome = "http404" /\ pages[1].status = 404
    /\ fetchLog[2].outcome = "threw" /\ pages[2].status = 500

\* The URL passes the include/exclude filter.
Kept(url) ==
    /\ url # <<>>
    /\ \A k \in 1..Len(crawlOpts.exclude) : ~Includes(url, crawlOpts.exclude[k])
    /\ \/ crawlOpts.include = <<>>
       \/ \E k \in 1..Len(crawlOpts.include) : Includes(url, crawlOpts.include[k])

\* The sitemap's URLs that passed the filter and the robots check, in order.
Survivors ==
    SelectSeq(allUrls,
              LAMBDA u : Kept(u) /\ ~(crawlOpts.respectRobotsTxt /\ Disallowed(u)))

\* C15: the targets are the first maxPages URLs, in sitemap order, of those
\* that passed the filter and the robots check, all of them without maxPages;
\* a dropped URL takes nothing of the budget.
C15_TargetsAreFirstSurvivors ==
    pc \in {"batch", "fetching", "delay", "done"} =>
        /\ targets = IF crawlOpts.hasMaxPages
                     THEN SubSeq(Survivors, 1, Min(crawlOpts.maxPages, Len(Survivors)))
                     ELSE Survivors
        /\ crawlOpts.hasMaxPages =>
              Len(targets) = Min(crawlOpts.maxPages, Len(Survivors))

\* C15 witness: with maxPages = 2 the first URL of the sitemap was dropped by
\* robots.txt, and the second and the third are the targets.
C15_Witness ==
    /\ pc = "done"
    /\ crawlOpts.hasMaxPages /\ crawlOpts.maxPages = 2
    /\ Len(allUrls) = 3
    /\ crawlOpts.respectRobotsTxt /\ Disallowed(allUrls[1])
    /\ targets = <<allUrls[2], allUrls[3]>>

\* The URLs evaluated so far that were not disallowed, in order.
NotDisallowedSoFar ==
    LET passed == SelectSeq(robotsLog, LAMBDA e : e.outcome # "disallowed")
    IN [k \in 1..Len(passed) |-> passed[k].url]

\* C24: a URL whose robots evaluation throws is added to the allowed list at
\* its position among the URLs evaluated, the URLs after it are still
\* evaluated, and crawlFromSitemap does not fail because of it.
C24_ThrownEvaluationAllows ==
    crawlOpts.respectRobotsTxt =>
        /\ \A k \in 1..Len(robotsLog) : robotsLog[k].url = filteredUrls[k]
        /\ allowedUrls = NotDisallowedSoFar
        /\ pc \in {"batch", "fetching", "delay", "done"} =>
              Len(robotsLog) = Len(filteredUrls)
        /\ pc = "rejected" => robotsLog = <<>>

\* C24 witness: the crawl is done; an evaluation threw between one that
\* allowed and one that disallowed, and the URL that threw was fetched.
C24_Witness ==
    /\ pc = "done" /\ crawlOpts.respectRobotsTxt
    /\ Len(robotsLog) = 3
    /\ robotsLog[1].outcome = "allowed"
    /\ robotsLog[2].outcome = "threw"
    /\ robotsLog[3].outcome = "disallowed"
    /\ allowedUrls = <<robotsLog[1].url, robotsLog[2].url>>
    /\ \E k \in 1..Len(pages) : pages[k].url = robotsLog[2].url

\* C29: crawlFromSitemap terminates for every concurrency a caller can pass:
\* each iteration of the batch loop removes at least one URL from the queue.
C29_EachBatchShrinksQueue ==
    [][ batchSizes' # batchSizes => Len(queue') < Len(queue) ]_vars

\* The batch loop with a concurrency of at least 1: every iteration takes
\* min(concurrency, queue.length) >= 1 URLs off the queue.
BatchShrinksQueueWhenPositive ==
    [][ (batchSizes' # batchSizes /\ crawlOpts.concurrency >= 1)
          => Len(queue') < Len(queue) ]_vars

\* The canCrawl calls on URLs of origin that returned.
CallsOn(origin) ==
    {k \in 1..Len(robotsLog) :
        ~Threw(k) /\ UrlOrigin(robotsLog[k].url) = origin}

\* C18: one RobotsManager requests the robots.txt of an origin at most once,
\* with at most 2 attempts; a request that failed (thrown or not 2xx) is cached
\* as "no restrictions", and every URL of that origin is allowed without a
\* new request.
C18_RobotsLoadedOncePerOrigin ==
    /\ \A i, j \in 1..Len(robotsRequests) :
          robotsRequests[i] = robotsRequests[j] => i = j
    /\ pc = "robotsFetch" => robotsAttempt + 1 <= 2
    /\ DOMAIN robotsCache \subseteq Range(robotsRequests)
    /\ \A o \in robotsFailed :
          /\ o \in DOMAIN robotsCache
          /\ robotsCache[o] = NullRules
          /\ \A k \in CallsOn(o) : robotsLog[k].outcome = "allowed"

\* C18 witness: two URLs of one origin were evaluated with one request, which
\* failed, and both were allowed.
C18_Witness ==
    /\ pc = "done"
    /\ robotsRequests = <<OriginLower>>
    /\ robotsFailed = {OriginLower}
    /\ Cardinality(CallsOn(OriginLower)) = 2

----------------------------------------------------------------------------
(* shouldIncludeUrl alone *)

MaxPatterns == 2

\* Patterns of the include and exclude lists; <<>> is the empty string.
FilterPatterns == { <<"/", "a">>, <<"a", "/", "b">>, <<"/", "x">>, <<>> }

PatternLists == SeqsUpTo(FilterPatterns, MaxPatterns)

FilterInit ==
    /\ filterUrl \in CrawlUrls
    /\ filterInclude \in PatternLists
    /\ filterExclude \in PatternLists
    /\ filterKept = "none"

\* shouldIncludeUrl(url, include, exclude)
Decide ==
    /\ filterKept = "none"
    /\ filterKept' = IF shouldIncludeUrl(filterUrl, filterInclude, filterExclude)
                     THEN "kept" ELSE "dropped"
    /\ UNCHANGED <<filterUrl, filterInclude, filterExclude, notFilter>>

FilterNext == Decide

FilterStart == FilterInit /\ MergeIdle /\ GroupIdle /\ CrawlIdle /\ InitIdle /\ RenderIdle /\ ParseIdle /\ RetryIdle

FilterSpec == FilterStart /\ [][FilterNext]_vars

\* pattern occurs in url: url = before \o pattern \o after
Occurs(pattern, url) ==
    \E i \in 0..Len(url) :
        /\ i + Len(pattern) <= Len(url)
        /\ \A j \in 1..Len(pattern) : url[i + j] = pattern[j]

ExcludeHit == \E k \in 1..Len(filterExclude) : Occurs(filterExclude[k], filterUrl)
IncludeHit == \E k \in 1..Len(filterInclude) : Occurs(filterInclude[k], filterUrl)

\* C16: a URL is kept iff it contains no exclude substring and, with a
\* non-empty include list, at least one include substring; a URL with both an
\* include and an exclude substring is dropped; without include list every
\* URL that is not excluded is kept.
C16_ExcludeThenInclude ==
    filterKept # "none" =>
        /\ filterKept = "kept" <=>
              (~ExcludeHit /\ (Len(filterInclude) > 0 => IncludeHit))
        /\ (IncludeHit /\ ExcludeHit) => filterKept = "dropped"
        /\ (filterInclude = <<>> /\ ~ExcludeHit) => filterKept = "kept"

\* C16 witness: a URL with an include and an exclude substring was dropped.
C16_Witness ==
    /\ filterKept = "dropped"
    /\ filterUrl = <<OriginLower, "/", "a", "/", "b">>
    /\ filterInclude = << <<"/", "a">> >>
    /\ filterExclude = << <<"/", "x">>, <<"a", "/", "b">> >>

----------------------------------------------------------------------------
(* initConfigCommand *)

\* The content of a file: TEMPLATE_TS, or something the user wrote.
Contents == {"absent", "template", "user"}

\* path.resolve(options.path ?? "llms.config.ts"); "none" is an absent option
Resolved(pathOption) == IF pathOption = "none" THEN DefaultPath ELSE pathOption

\* path.dirname(targetPath)
DirOf(path) ==
    IF path = NestedPath THEN "conf" ELSE IF path = OtherPath THEN "site" ELSE "."

\* fileExists: stat(filePath) does not throw
fileExists(fs, path) == fs[path] # "absent"

\* Mutant: the file is written whether it exists or not.
MayWrite_Always(force, exists) == TRUE

\* !(!options.force && (await fileExists(targetPath)))
MayWrite(force, exists) == ~(~force /\ exists)

InitConfigInit ==
    /\ files \in [ConfigPaths -> Contents]
    /\ dirs = {"."} \cup {DirOf(p) : p \in {q \in ConfigPaths : files[q] # "absent"}}
    /\ exitCode = 0
    /\ lastInit = NoCall

\* initConfigCommand(options); force is false when the option is absent
InitConfig(pathOption, force) ==
    LET targetPath == Resolved(pathOption) IN
    /\ lastInit' = [target |-> targetPath, force |-> force,
                    before |-> files[targetPath]]
    /\ IF MayWrite(force, fileExists(files, targetPath))
       THEN /\ dirs' = dirs \cup {DirOf(targetPath)}
            /\ files' = [files EXCEPT ![targetPath] = "template"]
            /\ UNCHANGED exitCode
       ELSE /\ exitCode' = 1
            /\ UNCHANGED <<files, dirs>>
    /\ UNCHANGED notInit

InitConfigNext ==
    \E pathOption \in ConfigPaths \cup {"none"}, force \in BOOLEAN :
        InitConfig(pathOption, force)

InitConfigStart ==
    InitConfigInit /\ MergeIdle /\ GroupIdle /\ CrawlIdle /\ FilterIdle /\ RenderIdle /\ ParseIdle /\ RetryIdle

InitConfigSpec == InitConfigStart /\ [][InitConfigNext]_vars

\* C20: a call on an existing target without force leaves every file as it
\* was, writes nothing and sets the exit code to 1; every other call writes the
\* template to the target and to nothing else.
C20_NoOverwriteWithoutForce ==
    [][ LET call == lastInit' IN
        /\ call.target \in ConfigPaths
        /\ call.before = files[call.target]
        /\ IF call.before # "absent" /\ ~call.force
           THEN files' = files /\ dirs' = dirs /\ exitCode' = 1
           ELSE /\ files' = [files EXCEPT ![call.target] = "template"]
                /\ exitCode' = exitCode ]_vars

\* C20 witness: a call without force on a file of the user was refused, after
\* a call with force had overwritten the other file.
C20_Witness ==
    /\ lastInit = [target |-> DefaultPath, force |-> FALSE, before |-> "user"]
    /\ files[DefaultPath] = "user"
    /\ files[NestedPath] = "template"
    /\ exitCode = 1

----------------------------------------------------------------------------
(* renderFull: processDocs and truncateContent *)

(* A text is a sequence of the tokens "a" (a character), " " (white space),  *)
(* "." (a dot), "@" (an e-mail address or a phone number), "[" (the text     *)
(* "[redacted-"), "e" (the name in a placeholder, "email" or "phone") and    *)
(* "]".  Every token counts as one character.                                *)

MaxDocs == 2
MaxDocLimit == 3
MaxTotalLimit == 4

\* "[redacted-email]", "[redacted-phone]"
Placeholder == <<"[", "e", "]">>

\* redactPII(text, true)
RECURSIVE redactPII(_)
redactPII(text) ==
    IF text = <<>> THEN <<>>
    ELSE (IF Head(text) = "@" THEN Placeholder ELSE <<Head(text)>>)
         \o redactPII(Tail(text))

\* text.indexOf("]", index), 1-based; 0 when there is none
IndexOfClose(text, index) ==
    LET hits == {k \in index..Len(text) : text[k] = "]"} IN
    IF hits = {} THEN 0 ELSE CHOOSE k \in hits : \A h \in hits : k <= h

\* text.replace(/\[redacted-[^\]]+\]/g, "")
RECURSIVE StripPlaceholders(_)
StripPlaceholders(text) ==
    IF text = <<>> THEN <<>>
    ELSE LET closing == IndexOfClose(text, 1) IN
         IF Head(text) = "[" /\ closing > 2
         THEN StripPlaceholders(SubSeq(text, closing + 1, Len(text)))
         ELSE <<Head(text)>> \o StripPlaceholders(Tail(text))

computeConsumedLength(text, treatPlaceholdersAsZero) ==
    IF ~treatPlaceholdersAsZero THEN Len(text) ELSE Len(StripPlaceholders(text))

EndsWith(text, suffix) ==
    /\ Len(text) >= Len(suffix)
    /\ SubSeq(text, Len(text) - Len(suffix) + 1, Len(text)) = suffix

\* The while loop of truncateContent, from position index (1-based).
RECURSIVE TruncateLoop(_, _, _, _, _, _)
TruncateLoop(text, index, consumed, result, limit, zero) ==
    IF index > Len(text)
    THEN [result |-> result, truncated |-> FALSE, consumed |-> consumed]
    ELSE IF zero /\ text[index] = "["
    THEN LET closing == IndexOfClose(text, index) IN
         IF closing = 0
         THEN [result |-> result, truncated |-> TRUE, consumed |-> consumed]
         ELSE TruncateLoop(text, closing + 1, consumed,
                           result \o SubSeq(text, index, closing), limit, zero)
    ELSE IF limit - consumed <= 0
    THEN [result |-> result, truncated |-> TRUE, consumed |-> consumed]
    ELSE TruncateLoop(text, index + 1, consumed + 1,
                      Append(result, text[index]), limit, zero)

WithEllipsis(text) ==
    IF EndsWith(TrimEnd(text), Ellipsis) THEN TrimEnd(text)
    ELSE TrimEnd(text) \o Ellipsis

\* docLimit and totalLimit are finite numbers here.
truncateContent(text, docLimit, totalLimit, treatPlaceholdersAsZero) ==
    LET limit == Min(docLimit, totalLimit) IN
    IF limit < 0
    THEN [value |-> text, truncated |-> FALSE,
          consumed |-> computeConsumedLength(text, treatPlaceholdersAsZero)]
    ELSE LET loop == TruncateLoop(text, 1, 0, <<>>, limit, treatPlaceholdersAsZero) IN
         [value |-> IF loop.truncated THEN WithEllipsis(loop.result) ELSE loop.result,
          truncated |-> loop.truncated,
          consumed |-> loop.consumed]

\* docsToProcess
docsToProcess ==
    IF renderOpts.maxDocs > 0 THEN Slice(renderDocs, renderOpts.maxDocs)
    ELSE renderDocs

\* Mutant: only the flag of truncateContent marks the document.
Processed_LoopFlagOnly(doc, remaining) ==
    LET trimmed == Trim(doc.md)
        baseContent == IF renderOpts.redactPII THEN redactPII(trimmed) ELSE trimmed
        cut == truncateContent(baseContent, renderOpts.maxDocChars, remaining,
                               renderOpts.redactPII)
    IN [doc |-> [url |-> doc.url, content |-> cut.value, truncated |-> cut.truncated],
        flags |-> [truncated |-> cut.truncated,
                   docLimitExceeded |-> Len(trimmed) > renderOpts.maxDocChars,
                   totalLimitExceeded |-> Len(trimmed) > remaining],
        remaining |-> Max(remaining - cut.consumed, 0)]

\* One pass of the loop body of processDocs on doc, after the two guards.
Processed(doc, remaining) ==
    LET trimmed == Trim(doc.md)
        baseContent == IF renderOpts.redactPII THEN redactPII(trimmed) ELSE trimmed
        cut == truncateContent(baseContent, renderOpts.maxDocChars, remaining,
                               renderOpts.redactPII)
        docLimitExceeded == Len(trimmed) > renderOpts.maxDocChars
        totalLimitExceeded == Len(trimmed) > remaining
        finalTruncated == cut.truncated \/ docLimitExceeded \/ totalLimitExceeded
    IN [doc |-> [url |-> doc.url,
                 content |-> IF finalTruncated /\ ~EndsWith(cut.value, Ellipsis)
                             THEN TrimEnd(cut.value) \o Ellipsis
                             ELSE cut.value,
                 truncated |-> finalTruncated],
        flags |-> [truncated |-> cut.truncated,
                   docLimitExceeded |-> docLimitExceeded,
                   totalLimitExceeded |-> totalLimitExceeded],
        remaining |-> Max(remaining - cut.consumed, 0)]

\* The texts of the documents.
DocTexts ==
    { <<"a", "a", "a", "a">>, <<"a", "a">>, <<" ", "a", " ">>, <<" ">>, <<>>,
      <<"@", "a", "a", "a", "a">>, <<"a", "@">>,
      <<"[", "a", "a", "a", "a", "]">>, <<"[", "a", "a">>, <<"[", "e", "]", "a">>,
      <<"a", ".", ".", ".", "a", "a">>, <<"a", " ", "a", "a">> }

\* The lists of at most MaxDocs documents; the url of a document is its place.
DocLists ==
    { [k \in 1..Len(texts) |-> [url |-> k, md |-> texts[k]]] :
        texts \in SeqsUpTo(DocTexts, MaxDocs) }

RenderInit ==
    /\ renderDocs \in DocLists
    /\ renderOpts \in [maxDocs : {0, 1}, maxDocChars : 1..MaxDocLimit,
                        maxTotalChars : 1..MaxTotalLimit, redactPII : BOOLEAN]
    /\ renderPc = "loop"
    /\ renderPos = 0
    /\ remainingChars = renderOpts.maxTotalChars
    /\ processedDocs = <<>>
    /\ truncationFlags = <<>>
    /\ fullSections = <<>>

\* for (const doc of docsToProcess): one document
ProcessDoc ==
    /\ renderPc = "loop"
    /\ renderPos < Len(docsToProcess)
    /\ remainingChars > 0
    /\ LET doc == docsToProcess[renderPos + 1] IN
       IF Trim(doc.md) = <<>>
       THEN UNCHANGED <<processedDocs, truncationFlags, remainingChars>>
       ELSE /\ processedDocs' = Append(processedDocs, Processed(doc, remainingChars).doc)
            /\ truncationFlags' = Append(truncationFlags,
                                         Processed(doc, remainingChars).flags)
            /\ remainingChars' = Processed(doc, remainingChars).remaining
    /\ renderPos' = renderPos + 1
    /\ UNCHANGED <<renderDocs, renderOpts, renderPc, fullSections, notRender>>

\* The loop ends, by its break or with the last document; renderFull writes a
\* section for every processed document and redacts the output once more.
RenderSections ==
    /\ renderPc = "loop"
    /\ renderPos = Len(docsToProcess) \/ remainingChars <= 0
    /\ fullSections' =
          [k \in 1..Len(processedDocs) |->
              [url |-> processedDocs[k].url,
               content |-> IF renderOpts.redactPII
                           THEN redactPII(processedDocs[k].content)
                           ELSE processedDocs[k].content,
               notice |-> processedDocs[k].truncated]]
    /\ renderPc' = "done"
    /\ UNCHANGED <<renderDocs, renderOpts, renderPos, remainingChars, processedDocs,
                   truncationFlags, notRender>>

RenderNext == ProcessDoc \/ RenderSections

RenderStart ==
    RenderInit /\ MergeIdle /\ GroupIdle /\ CrawlIdle /\ FilterIdle /\ InitIdle /\ ParseIdle /\ RetryIdle

RenderSpec == RenderStart /\ [][RenderNext]_vars

\* The text without the placeholders that redaction writes.
RECURSIVE WithoutPlaceholders(_)
WithoutPlaceholders(text) ==
    IF text = <<>> THEN <<>>
    ELSE IF Len(text) >= 3 /\ SubSeq(text, 1, 3) = Placeholder
    THEN WithoutPlaceholders(SubSeq(text, 4, Len(text)))
    ELSE <<Head(text)>> \o WithoutPlaceholders(Tail(text))

\* The text without every span from "[redacted-" to the next "]".
RECURSIVE WithoutSpans(_)
WithoutSpans(text) ==
    IF text = <<>> THEN <<>>
    ELSE IF Head(text) = "[" /\ IndexOfClose(text, 1) > 0
    THEN WithoutSpans(SubSeq(text, IndexOfClose(text, 1) + 1, Len(text)))
    ELSE <<Head(text)>> \o WithoutSpans(Tail(text))

\* The content of a section without the "..." of a truncation.
Emitted(section) ==
    IF section.notice /\ EndsWith(section.content, Ellipsis)
    THEN SubSeq(section.content, 1, Len(section.content) - 3)
    ELSE section.content

\* The document characters of a section, placeholders and "..." not counted.
DocChars(section) == Len(WithoutPlaceholders(Emitted(section)))

\* The same, when every "[redacted-" ... "]" span of a redacted text counts
\* as a placeholder.
DocCharsOutsideSpans(section) ==
    IF renderOpts.redactPII THEN Len(WithoutSpans(Emitted(section)))
    ELSE Len(Emitted(section))

RECURSIVE SumTo(_, _)
SumTo(f, n) == IF n = 0 THEN 0 ELSE f[n] + SumTo(f, n - 1)

\* The text of the document of a section as processDocs cuts it.
BaseText(section) ==
    LET trimmed == Trim(renderDocs[section.url].md) IN
    IF renderOpts.redactPII THEN redactPII(trimmed) ELSE trimmed

CutShort(section) == Emitted(section) # BaseText(section)

\* C19 as stated: the document characters of one document never exceed
\* maxDocChars, their running total never exceeds maxTotalChars, no document
\* is emitted once the total is used up, and a document cut short ends with
\* "..." and has the truncation notice.
C19_LimitsRespected ==
    LET chars == [k \in 1..Len(fullSections) |-> DocChars(fullSections[k])] IN
    /\ \A k \in 1..Len(fullSections) : chars[k] <= renderOpts.maxDocChars
    /\ SumTo(chars, Len(fullSections)) <= renderOpts.maxTotalChars
    /\ \A k \in 1..Len(fullSections) : SumTo(chars, k - 1) < renderOpts.maxTotalChars
    /\ \A k \in 1..Len(fullSections) :
          CutShort(fullSections[k]) =>
              /\ EndsWith(fullSections[k].content, Ellipsis)
              /\ fullSections[k].notice

\* What does hold: the same limits when, under redaction, every span from
\* "[redacted-" to the next "]" is left out of the count, whether redaction
\* wrote it or the document contained it.
RenderLimitsOutsideSpans ==
    LET chars == [k \in 1..Len(fullSections) |->
                     DocCharsOutsideSpans(fullSections[k])] IN
    /\ \A k \in 1..Len(fullSections) : chars[k] <= renderOpts.maxDocChars
    /\ SumTo(chars, Len(fullSections)) <= renderOpts.maxTotalChars
    /\ \A k \in 1..Len(fullSections) : SumTo(chars, k - 1) < renderOpts.maxTotalChars
    /\ \A k \in 1..Len(fullSections) :
          CutShort(fullSections[k]) =>
              /\ EndsWith(fullSections[k].content, Ellipsis)
              /\ fullSections[k].notice

\* The content of a processed document without the "..." of a truncation.
KeptText(entry) ==
    IF entry.truncated /\ EndsWith(entry.content, Ellipsis)
    THEN SubSeq(entry.content, 1, Len(entry.content) - 3)
    ELSE entry.content

\* Part of the document's text, after redaction, is not in its content.
LeftOut(entry) == KeptText(entry) # BaseText(entry)

LengthExceeded(k) ==
    truncationFlags[k].docLimitExceeded \/ truncationFlags[k].totalLimitExceeded

\* C30 as stated: a document is marked truncated exactly when part of its
\* text, after redaction, was left out, and the flag of truncateContent agrees
\* with docLimitExceeded or totalLimitExceeded, with or without redaction.
C30_TruncatedIffLeftOut ==
    \A k \in 1..Len(processedDocs) :
        /\ processedDocs[k].truncated <=> LeftOut(processedDocs[k])
        /\ truncationFlags[k].truncated <=> LengthExceeded(k)

\* C30 amended: a document is marked truncated (flag, "...") exactly when
\* truncateContent cut it or the length of its trimmed text before redaction
\* exceeds maxDocChars or the remaining total; text that was left out is always
\* marked; without redaction the mark means that text was left out and the
\* three conditions agree, with redaction a document can be marked though all
\* of its redacted text is in the content.
C30_MarkedWhenCutOrOverLength ==
    \A k \in 1..Len(processedDocs) :
        /\ processedDocs[k].truncated <=>
              (truncationFlags[k].truncated \/ LengthExceeded(k))
        /\ truncationFlags[k].truncated <=> LeftOut(processedDocs[k])
        /\ processedDocs[k].truncated => EndsWith(processedDocs[k].content, Ellipsis)
        /\ ~renderOpts.redactPII =>
              /\ processedDocs[k].truncated <=> LeftOut(processedDocs[k])
              /\ truncationFlags[k].truncated <=> LengthExceeded(k)

\* C30 witness: under redaction a document longer than maxDocChars before
\* redaction is marked truncated and ends with "...", though truncateContent
\* cut nothing and its whole redacted text is in the content.
C30_Witness ==
    /\ renderOpts.redactPII
    /\ \E k \in 1..Len(processedDocs) :
          /\ processedDocs[k].truncated
          /\ ~truncationFlags[k].truncated
          /\ truncationFlags[k].docLimitExceeded
          /\ ~LeftOut(processedDocs[k])
          /\ processedDocs[k].content = BaseText(processedDocs[k]) \o Ellipsis
          /\ "@" \in Range(renderDocs[processedDocs[k].url].md)
          /\ "[" \notin Range(renderDocs[processedDocs[k].url].md)

----------------------------------------------------------------------------
(* Properties of parseSitemap *)

RECURSIVE FlatSeq(_)
FlatSeq(ss) == IF ss = <<>> THEN <<>> ELSE Head(ss) \o FlatSeq(Tail(ss))

\* The URLs of a document, nested sitemaps in document order.
RECURSIVE Flatten(_)
Flatten(doc) ==
    IF doc.kind = "urlset" THEN doc.urls
    ELSE IF doc.kind = "index"
    THEN FlatSeq([k \in 1..Len(doc.children) |-> Flatten(doc.children[k])])
    ELSE <<>>

\* The documents below and including doc, a parent before its children.
RECURSIVE Preorder(_)
Preorder(doc) ==
    <<doc>> \o FlatSeq([k \in 1..Len(doc.children) |-> Preorder(doc.children[k])])

\* Some document of the structure cannot be read.
Fails(doc) == \E k \in 1..Len(Preorder(doc)) : Preorder(doc)[k].kind = "threw"

IsPrefix(a, b) == Len(a) <= Len(b) /\ SubSeq(b, 1, Len(a)) = a

TwoAndThree ==
    Index(<<Urlset(<<SitemapUrlB, SitemapUrlX>>),
            Urlset(<<SitemapUrlR, SitemapUrlA, SitemapUrlF>>)>>)

----------------------------------------------------------------------------
(* parseRobotsTxt *)

\* A line is a sequence of tokens: a directive name as written ("User-agent",
\* "user-agent", "Disallow", "Allow"), an agent name ("Bot", "*"),
\* or one character (":", "#", " ", "/", "a", "x").

MaxLines == 4

\* s.indexOf(c), 1-based; 0 when there is none
IndexOf(s, c) ==
    LET hits == {k \in 1..Len(s) : s[k] = c} IN
    IF hits = {} THEN 0 ELSE CHOOSE k \in hits : \A h \in hits : k <= h

\* s.toLowerCase()
toLowerCase(s) ==
    [k \in 1..Len(s) |->
        CASE s[k] = "User-agent" -> "user-agent"
          [] s[k] = "Disallow" -> "disallow"
          [] s[k] = "Allow" -> "allow"
          [] s[k] = "Bot" -> "bot"
          [] OTHER -> s[k]]

\* rawLine without its comment, trimmed
StripComment(rawLine) ==
    LET commentIndex == IndexOf(rawLine, "#") IN
    Trim(IF commentIndex > 0 THEN SubSeq(rawLine, 1, commentIndex - 1) ELSE rawLine)

\* directive and value of a line with a separator
DirectiveOf(line) == toLowerCase(Trim(SubSeq(line, 1, IndexOf(line, ":") - 1)))
ValueOf(line) == Trim(SubSeq(line, IndexOf(line, ":") + 1, Len(line)))

\* Mutant: a User-Agent line never starts a new block.
NewBlock_Never(agents, hasRules) == agents

\* if (hasRulesInBlock) currentAgents = []
NewBlock(agents, hasRules) == IF hasRules THEN <<>> ELSE agents

\* Mutant: an empty Disallow is stored like any rule.
Stored_Always(directive, value) == TRUE

\* The rule line is compiled and pushed: not `Disallow:` with an empty value.
Stored(directive, value) == ~(directive = "disallow" /\ value = <<>>)

EmptyGroup == [allow |-> <<>>, disallow |-> <<>>]

\* if (!groups[agent]) groups[agent] = { allow: [], disallow: [] }
WithGroup(map, agent) ==
    [a \in DOMAIN map \cup {agent} |-> IF a \in DOMAIN map THEN map[a] ELSE EmptyGroup]

\* for (const agent of currentAgents) groups[agent][directive].push(rule)
RECURSIVE PushRule(_, _, _, _)
PushRule(map, agents, directive, rule) ==
    IF agents = <<>> THEN map
    ELSE LET with == WithGroup(map, Head(agents)) IN
         PushRule([with EXCEPT ![Head(agents)][directive] = Append(@, rule)],
                  Tail(agents), directive, rule)

\* The body of the loop of parseRobotsTxt on one line.
parseLine(map, agents, hasRules, rawLine) ==
    LET line == StripComment(rawLine)
        same == [map |-> map, agents |-> agents, hasRules |-> hasRules]
    IN IF line = <<>> THEN [map |-> map, agents |-> <<>>, hasRules |-> FALSE]
       ELSE IF IndexOf(line, ":") = 0 THEN same
       ELSE LET directive == DirectiveOf(line)
                value == ValueOf(line)
            IN IF directive = <<"user-agent">>
               THEN LET block == NewBlock(agents, hasRules)
                        agent == toLowerCase(value)
                    IN IF agent = <<>>
                       THEN [map |-> map, agents |-> block, hasRules |-> FALSE]
                       ELSE [map |-> WithGroup(map, agent),
                             agents |-> Append(block, agent), hasRules |-> FALSE]
               ELSE IF directive \in {<<"allow">>, <<"disallow">>}
               THEN IF agents = <<>> THEN same
                    ELSE IF ~Stored(directive[1], value)
                    THEN [map |-> map, agents |-> agents, hasRules |-> TRUE]
                    ELSE [map |-> PushRule(map, agents, directive[1],
                                           compilePattern(value)),
                          agents |-> agents, hasRules |-> TRUE]
               ELSE same

\* The lines of the robots.txt bodies.
RobotsLineSet ==
    { <<"User-agent", ":", " ", "*">>,
      <<"user-agent", ":", "Bot", " ">>,
      <<"User-agent", ":">>,
      <<"Disallow", ":", " ", "/", "a">>,
      <<"Disallow", ":">>,
      <<"Disallow", ":", " ", "#", "/">>,
      <<"Allow", ":", "a", " ", "#", "x">>,
      <<>>,
      <<" ", "#", "x">> }

\* Every list of lines of a length up to n.
RECURSIVE LinesUpTo(_)
LinesUpTo(n) ==
    IF n = 0 THEN { <<>> }
    ELSE LET shorter == LinesUpTo(n - 1) IN
         shorter \cup { Append(l, x) : l \in {r \in shorter : Len(r) = n - 1},
                                       x \in RobotsLineSet }

ParseInit ==
    /\ robotsLines \in LinesUpTo(MaxLines)
    /\ lineNo = 0
    /\ parsedGroups = <<>>
    /\ currentAgents = <<>>
    /\ hasRulesInBlock = FALSE

\* for (const rawLine of lines): one iteration
ParseLine ==
    /\ lineNo < Len(robotsLines)
    /\ LET r == parseLine(parsedGroups, currentAgents, hasRulesInBlock,
                          robotsLines[lineNo + 1])
       IN /\ parsedGroups' = r.map
          /\ currentAgents' = r.agents
          /\ hasRulesInBlock' = r.hasRules
    /\ lineNo' = lineNo + 1
    /\ UNCHANGED <<robotsLines, notParse>>

ParseNext == ParseLine

ParseStart ==
    ParseInit /\ MergeIdle /\ GroupIdle /\ CrawlIdle /\ FilterIdle /\ InitIdle
    /\ RenderIdle /\ RetryIdle

ParseSpec == ParseStart /\ [][ParseNext]_vars

\* The lines passed so far, as parseRobotsTxt reads them.
LineAt(j) == StripComment(robotsLines[j])
IsBlankLine(j) == LineAt(j) = <<>>
HasDirective(j, name) ==
    /\ IndexOf(LineAt(j), ":") > 0
    /\ DirectiveOf(LineAt(j)) = <<name>>
IsAgentLine(j) == HasDirective(j, "user-agent")
IsRuleLine(j) == HasDirective(j, "allow") \/ HasDirective(j, "disallow")
AgentAt(j) == toLowerCase(ValueOf(LineAt(j)))

\* The User-Agent line i belongs to the block that the line j is in: no blank
\* line lies between them, and no User-Agent line that follows a rule line.
SameBlock(i, j) ==
    /\ i < j
    /\ IsAgentLine(i) /\ AgentAt(i) # <<>>
    /\ \A k \in (i + 1)..(j - 1) : ~IsBlankLine(k)
    /\ \A l, k \in (i + 1)..(j - 1) : ~(l < k /\ IsRuleLine(l) /\ IsAgentLine(k))

\* The rules the lines 1..j give to agent under directive: a rule line with a
\* stored value, once per User-Agent line of its block that names the agent.
RECURSIVE ExpectedRules(_, _, _)
ExpectedRules(agent, directive, j) ==
    IF j = 0 THEN <<>>
    ELSE LET times == IF HasDirective(j, directive)
                         /\ ~(directive = "disallow" /\ ValueOf(LineAt(j)) = <<>>)
                      THEN Cardinality({i \in 1..(j - 1) :
                                          SameBlock(i, j) /\ AgentAt(i) = agent})
                      ELSE 0
         IN ExpectedRules(agent, directive, j - 1)
            \o [n \in 1..times |-> compilePattern(ValueOf(LineAt(j)))]

\* C25: consecutive User-Agent lines open one block and every Allow/Disallow
\* line after them is added to each agent of the block; a User-Agent line after
\* a rule line starts a new block; a blank or comment-only line closes the
\* block, and rule lines between it and the next User-Agent line are added to
\* no group.
C25_BlocksOfAgents ==
    /\ DOMAIN parsedGroups =
          {AgentAt(i) : i \in {k \in 1..lineNo : IsAgentLine(k) /\ AgentAt(k) # <<>>}}
    /\ \A agent \in DOMAIN parsedGroups :
          /\ parsedGroups[agent].allow = ExpectedRules(agent, "allow", lineNo)
          /\ parsedGroups[agent].disallow = ExpectedRules(agent, "disallow", lineNo)

\* C25 witness: two User-Agent lines, a rule for both agents, then a
\* User-Agent line whose rule went to the new block only.
C25_Witness ==
    /\ lineNo = 4 /\ Len(robotsLines) = 4
    /\ IsAgentLine(1) /\ IsRuleLine(2) /\ IsAgentLine(3) /\ IsRuleLine(4)
    /\ AgentAt(1) # <<>> /\ AgentAt(3) # <<>> /\ AgentAt(1) # AgentAt(3)
    /\ Len(parsedGroups[AgentAt(1)].disallow) = 1
    /\ Len(parsedGroups[AgentAt(3)].allow) = 1
    /\ parsedGroups[AgentAt(1)].allow = <<>>

\* The Disallow lines passed so far that have a value.
DisallowValues ==
    {ValueOf(LineAt(j)) :
        j \in {k \in 1..lineNo : HasDirective(k, "disallow")
                                 /\ ValueOf(LineAt(k)) # <<>>}}

\* C26: a Disallow line with an empty value is stored in no group, so a group
\* whose only rule lines are empty Disallow lines allows every URL; every
\* stored rule has a pattern that begins with "/".
C26_EmptyDisallowNotStored ==
    \A agent \in DOMAIN parsedGroups :
        LET group == parsedGroups[agent] IN
        /\ \A k \in 1..Len(group.disallow) :
              group.disallow[k] \in {compilePattern(v) : v \in DisallowValues}
        /\ \A k \in 1..Len(group.allow) : Head(group.allow[k]) = "/"
        /\ \A k \in 1..Len(group.disallow) : Head(group.disallow[k]) = "/"
        /\ DisallowValues = {} =>
              \A target \in Targets : isAllowedByGroup(target, group)

\* C26 witness: a block of one agent with an empty Disallow, a Disallow that
\* is empty once its comment is stripped, and an Allow without a leading "/".
C26_Witness ==
    /\ lineNo = 4
    /\ IsAgentLine(1) /\ AgentAt(1) # <<>>
    /\ HasDirective(2, "disallow") /\ HasDirective(3, "disallow")
    /\ robotsLines[2] # robotsLines[3]
    /\ DisallowValues = {}
    /\ parsedGroups[AgentAt(1)] = [allow |-> << <<"/", "a">> >>, disallow |-> <<>>]

----------------------------------------------------------------------------
(* fetchWithRetry *)

MaxRetries == 3

\* What fetch can throw, and the statuses of the responses it can resolve to.
FetchErrors == {"ETIMEDOUT", "ECONNRESET"}
FetchStatuses == {200, 404, 503}

\* throw new Error("Failed to fetch after retries")
AfterRetries == "Failed to fetch after retries"

Request(outcome) == [kind |-> "request", what |-> outcome]
Wait(ms) == [kind |-> "wait", what |-> ms]

\* for (let i = 0; i < retries; i++): the test, with what follows the loop
LoopTest(i, retries) ==
    IF i < retries
    THEN /\ retryPc' = "request"
         /\ retryResult' = "none"
    ELSE /\ retryPc' = "threw"
         /\ retryResult' = AfterRetries

RetryInit ==
    /\ retryOpts \in [retries : 0..MaxRetries, delayMs : {0, 500}]
    /\ retryI = 0
    /\ retryPc = "called"
    /\ retryTrace = <<>>
    /\ retryResult = "none"

\* The call enters the loop.
RetryEnter ==
    /\ retryPc = "called"
    /\ LoopTest(0, retryOpts.retries)
    /\ UNCHANGED <<retryOpts, retryI, retryTrace, notFetchRetry>>

\* await fetch(...) resolves: return response
FetchResolves(status) ==
    /\ retryPc = "request"
    /\ retryTrace' = Append(retryTrace, Request(status))
    /\ retryPc' = "returned"
    /\ retryResult' = status
    /\ UNCHANGED <<retryOpts, retryI, notFetchRetry>>

\* await fetch(...) throws: rethrow on the last attempt, wait otherwise
FetchThrows(error) ==
    /\ retryPc = "request"
    /\ retryTrace' = Append(retryTrace, Request(error))
    /\ IF LastAttempt(retryI, retryOpts.retries)
       THEN retryPc' = "threw" /\ retryResult' = error
       ELSE retryPc' = "wait" /\ UNCHANGED retryResult
    /\ UNCHANGED <<retryOpts, retryI, notFetchRetry>>

\* The timer of delayMs fires: i++ and the loop test
WaitElapsed ==
    /\ retryPc = "wait"
    /\ retryTrace' = Append(retryTrace, Wait(retryOpts.delayMs))
    /\ retryI' = retryI + 1
    /\ LoopTest(retryI + 1, retryOpts.retries)
    /\ UNCHANGED <<retryOpts, notFetchRetry>>

RetryNext ==
    \/ RetryEnter
    \/ \E status \in FetchStatuses : FetchResolves(status)
    \/ \E error \in FetchErrors : FetchThrows(error)
    \/ WaitElapsed

RetryStart ==
    RetryInit /\ MergeIdle /\ GroupIdle /\ CrawlIdle /\ FilterIdle /\ InitIdle
    /\ RenderIdle /\ ParseIdle

RetrySpec == RetryStart /\ [][RetryNext]_vars

RequestsMade == SelectSeq(retryTrace, LAMBDA e : e.kind = "request")
WaitsMade == SelectSeq(retryTrace, LAMBDA e : e.kind = "wait")

\* C21: with retries >= 1, fetchWithRetry issues at most retries requests,
\* stops at the first request that does not throw and returns its response
\* whatever the status, waits delayMs after each failed attempt but the last,
\* and after retries failed attempts throws the error of the last attempt.
C21_RetriesThenThrowsLast ==
    retryOpts.retries >= 1 =>
        /\ Len(RequestsMade) <= retryOpts.retries
        /\ \A k \in 1..(Len(RequestsMade) - 1) : RequestsMade[k].what \in FetchErrors
        /\ \A k \in 1..Len(retryTrace) :
              /\ retryTrace[k].kind = IF k % 2 = 1 THEN "request" ELSE "wait"
              /\ retryTrace[k].kind = "wait" => retryTrace[k].what = retryOpts.delayMs
        /\ Len(WaitsMade) <= retryOpts.retries - 1
        /\ retryPc = "returned" =>
              /\ Last(retryTrace).kind = "request"
              /\ Last(retryTrace).what \in FetchStatuses
              /\ retryResult = Last(retryTrace).what
        /\ retryPc = "threw" =>
              /\ Len(RequestsMade) = retryOpts.retries
              /\ Len(WaitsMade) = retryOpts.retries - 1
              /\ Last(retryTrace).kind = "request"
              /\ retryResult = Last(retryTrace).what
              /\ retryResult \in FetchErrors
        /\ (retryPc \in {"request", "wait"} /\ retryTrace # <<>>) =>
              Last(RequestsMade).what \in FetchErrors

\* C21 witness: three attempts failed with two waits between them, and the
\* error thrown is the third one, which differs from the first two.
C21_Witness ==
    /\ retryOpts.retries = 3 /\ retryOpts.delayMs = 500
    /\ retryPc = "threw"
    /\ Len(retryTrace) = 5
    /\ retryTrace[1].what = "ETIMEDOUT" /\ retryTrace[3].what = "ETIMEDOUT"
    /\ retryResult = "ECONNRESET"

====
